---- MODULE Spec2Model ----
(***************************************************************************)
(* A model of the CodeLab (.mdcl) VS Code extension: the command-tag       *)
(* parser (commandParser.ts), the preview panel and its render pipeline    *)
(* (the MDCLPreviewPanel class of extension.ts), and the quiz answer       *)
(* validation (answerKeyLoader.ts).                                        *)
(*                                                                         *)
(* Text is modelled at two levels.  A document is a sequence of lines,     *)
(* each line a record naming its shape (a fence, an inline command, prose, *)
(* ...): the regular expressions of the source are translated to what they *)
(* accept on these shapes.  Command texts and quiz answers are sequences   *)
(* of one-character strings, so that escaping, unescaping, trimming and    *)
(* lowercasing are computed character by character.                        *)
(***************************************************************************)
EXTENDS Naturals, Integers, Sequences, FiniteSets, TLC

VARIABLES
    text,              \* document id -> its lines (TextDocument.getText())
    currentPanel,      \* MDCLPreviewPanel.currentPanel is defined
    epoch,             \* number of MDCLPreviewPanel objects constructed so far
    document,          \* currentPanel._document
    executedCommands,  \* currentPanel.executedCommands
    commandCounter,    \* currentPanel.commandCounter
    quizCounter,       \* currentPanel.quizProcessor.quizCounter
    blockCommands,     \* currentPanel.blockCommands
    html,              \* currentPanel._panel.webview.html
    pending,           \* executeCommand handlers suspended at `await executor.execute'
    clickedOn,         \* history: <<document, commandId>> of every handled executeCommand
    firstHtml,         \* history: the html of the first render pass since the text shown
                       \* or the execution state last changed
    parsed,            \* result of the last CommandParser.parseDocument call
    parsedLine,        \* result of the last CommandParser.parseLine call
    vcall,             \* arguments of a validateAnswer call
    vresult,           \* its result
    answerKeys,        \* AnswerKeyLoader.answerKeys: cache key -> answer key
    files,             \* the file system: path -> what the file holds
    lastLoad,          \* the last loadAnswerKey call and what it resolved to
    loaded,            \* history: the <<document, custom name>> pairs loaded
                       \* successfully and not cleared since
    terminals,         \* CommandExecutor.terminals: channel name -> terminal
    exited,            \* the terminals whose exitStatus is defined
    dispatches,        \* executeCommand handlers suspended inside executor.execute
    events,            \* history: what the dispatches did, in order
    started,           \* history: number of executeCommand messages dispatched
    currentAnswerKey,  \* currentPanel.currentAnswerKey
    scrollPosition,    \* currentPanel.scrollPosition
    isScrolling,       \* currentPanel.isScrolling
    webviewPanels,     \* the webview panels created and not disposed
    quizResults,       \* history: the quizResult messages posted to the webview
    checked,           \* history: the checkQuizAnswer messages handled
    resetTimers,       \* the pending timers of lines 304 and 339, oldest first
    forwarded,         \* history: the scroll events passed on to the other side
    autoOpenTimers     \* the pending timers of line 118

panelVars == <<currentPanel, epoch, document, executedCommands, commandCounter,
               quizCounter, blockCommands, html, pending, clickedOn, firstHtml>>
parserVars == <<parsed, parsedLine>>
validateVars == <<vcall, vresult>>
loaderVars == <<answerKeys, files, lastLoad, loaded>>
executorVars == <<terminals, exited, dispatches, events, started>>
loaderFiles == <<files, lastLoad, loaded>>
fieldVars == <<scrollPosition, isScrolling>>
messageVars == <<quizResults, checked, resetTimers, forwarded, autoOpenTimers>>
sessionVars == <<currentAnswerKey, fieldVars, webviewPanels, messageVars>>
\* What no step of the panel's life cycle writes.
otherVars == <<loaderFiles, executorVars, messageVars>>
componentVars == <<loaderVars, executorVars, sessionVars>>
vars == <<text, panelVars, parserVars, validateVars, componentVars>>

\* JavaScript's undefined / null, where a string or an object is expected.
Undefined == "_undefined_"

(***************************************************************************)
(* Strings as sequences of one-character strings.                          *)
(***************************************************************************)

\* Does pat occur in s at position i?
OccursAt(s, pat, i) ==
    /\ i + Len(pat) - 1 <= Len(s)
    /\ \A k \in 1..Len(pat) : s[i + k - 1] = pat[k]

RECURSIVE ReplaceFrom(_, _, _, _)
ReplaceFrom(s, pat, rep, i) ==
    IF i > Len(s) THEN <<>>
    ELSE IF OccursAt(s, pat, i)
         THEN rep \o ReplaceFrom(s, pat, rep, i + Len(pat))
         ELSE <<s[i]>> \o ReplaceFrom(s, pat, rep, i + 1)

\* String.prototype.replace(/pat/g, rep) for a literal pattern.
ReplaceAll(s, pat, rep) == ReplaceFrom(s, pat, rep, 1)

Amp == <<"&">>
EntAmp == <<"&", "a", "m", "p", ";">>
EntLt == <<"&", "l", "t", ";">>
EntGt == <<"&", "g", "t", ";">>
EntQuot == <<"&", "q", "u", "o", "t", ";">>
EntApos == <<"&", "#", "3", "9", ";">>

\* What marked writes for one character of text or of a code span.
MarkedEscapeChar(c) ==
    CASE c = "&" -> EntAmp
      [] c = "<" -> EntLt
      [] c = ">" -> EntGt
      [] c = "\"" -> EntQuot
      [] c = "'" -> EntApos
      [] OTHER -> <<c>>

RECURSIVE MarkedEscape(_)
MarkedEscape(s) ==
    IF s = <<>> THEN <<>> ELSE MarkedEscapeChar(Head(s)) \o MarkedEscape(Tail(s))

\* createCommandButton's five chained replace calls.
UnescapeHtml(s) ==
    ReplaceAll(ReplaceAll(ReplaceAll(ReplaceAll(ReplaceAll(s,
        EntQuot, <<"\"">>), EntApos, <<"'">>), EntLt, <<"<">>), EntGt, <<">">>),
        EntAmp, Amp)

(***************************************************************************)
(* Tags.  The directive after a backticked span is {{ action args }},      *)
(* where args is a sequence of whitespace-separated tokens.  A token is    *)
(* bare (t2), single-quoted ('t2') or double-quoted ("t2").                *)
(***************************************************************************)

Bare(w) == [q |-> "bare", w |-> w]
Sq(w) == [q |-> "sq", w |-> w]
Dq(w) == [q |-> "dq", w |-> w]

\* The characters of a token as the document has them.
RawText(a) ==
    CASE a.q = "bare" -> a.w
      [] a.q = "sq" -> "'" \o a.w \o "'"
      [] a.q = "dq" -> "\"" \o a.w \o "\""

\* The characters of a token after marked has escaped the quotes.
HtmlText(a) ==
    CASE a.q = "bare" -> a.w
      [] a.q = "sq" -> "&#39;" \o a.w \o "&#39;"
      [] a.q = "dq" -> "&quot;" \o a.w \o "&quot;"

NoMatch == [ok |-> FALSE, quoted |-> Undefined, unquoted |-> Undefined,
            interrupt |-> Undefined]

(* The argument part shared by the four command regular expressions,
     (?:\s+(?:Q([^..]+)Q|([^\s}]+)))?(?:\s+(interrupt))?\s*\}\}
   on the tokens args.  quotes is the set of quoting styles the quoted
   alternative Q..Q of the expression accepts; asHtml tells whether the
   expression runs on marked's output or on the document text.  The optional
   argument group is tried first, so a single bare token is always captured
   by ([^\s}]+), the token interrupt included. *)
MatchArgs(args, quotes, asHtml) ==
    LET first ==
            IF args = <<>> THEN NoMatch
            ELSE IF args[1].q \in quotes
                 THEN [NoMatch EXCEPT !.quoted = args[1].w]
                 ELSE [NoMatch EXCEPT !.unquoted =
                          IF asHtml THEN HtmlText(args[1]) ELSE RawText(args[1])]
    IN  CASE Len(args) = 0 -> [NoMatch EXCEPT !.ok = TRUE]
          [] Len(args) = 1 -> [first EXCEPT !.ok = TRUE]
          [] Len(args) = 2 ->
                IF args[2] = Bare("interrupt")
                THEN [first EXCEPT !.ok = TRUE, !.interrupt = "interrupt"]
                ELSE NoMatch
          [] OTHER -> NoMatch

ActionKeywords == {"execute", "copy", "open"}

\* A mutant of COMMAND_REGEX: the quoted alternative is missing, as in a
\* regular expression that knows bare terminal names only.
CommandRegexBareOnly(tag) ==
    IF tag.action \in ActionKeywords THEN MatchArgs(tag.args, {}, FALSE) ELSE NoMatch

\* CommandParser.COMMAND_REGEX on one tag: single quotes only.
CommandRegex(tag) ==
    IF tag.action \in ActionKeywords THEN MatchArgs(tag.args, {"sq"}, FALSE)
    ELSE NoMatch

(***************************************************************************)
(* Lines of a document.                                                    *)
(***************************************************************************)

TextLine == [k |-> "text"]                       \* prose, no backtick, no brace
BlankLine == [k |-> "blank"]
Fence(lang) == [k |-> "fence", lang |-> lang]    \* ``` or ```python
RunAllFence(lang, tag) ==                        \* ```bash{{ execute 't2' }}
    [k |-> "runall", lang |-> lang, tag |-> tag]
CmdLine(cmd, tag) ==                             \* `cmd` {{ execute 't2' }}
    [k |-> "cmd", cmd |-> cmd, tag |-> tag]

Tag(action, args) == [action |-> action, args |-> args]

\* The lines of quizzes.  id and answerKey are the quoted attribute values,
\* Undefined for an attribute that is not there.
QuizFence(id, answerKey) ==                      \* ```quiz id="q1"
    [k |-> "fence", lang |-> "quiz", id |-> id, answerKey |-> answerKey]
OptionLine(label) == [k |-> "text", option |-> label]         \* A) text
QuizLine(id, answerKey) ==                       \* `question` {{ quiz id='q1' }}
    CmdLine(<<"q">>, [action |-> "quiz", args |-> <<>>, id |-> id,
                      answerKey |-> answerKey])

(***************************************************************************)
(* CommandParser (commandParser.ts).  The expression is run on each        *)
(* physical line; among the line shapes only an inline command line holds  *)
(* a backticked span directly followed by a directive.                     *)
(***************************************************************************)

\* A mutant of Descriptor: the unquoted group is taken as the terminal name
\* whatever it holds.
DescriptorAnyTerminal(lineIndex, l, m) ==
    [line |-> lineIndex,
     command |-> l.cmd,
     action |-> l.tag.action,
     terminal |->
        IF m.quoted # Undefined THEN m.quoted
        ELSE IF m.unquoted # Undefined THEN m.unquoted
        ELSE Undefined,
     interrupt |-> (m.unquoted = "interrupt" \/ m.interrupt = "interrupt")]

\* What parseDocument and parseLine build from a match (lines 25-44, 61-80).
Descriptor(lineIndex, l, m) ==
    [line |-> lineIndex,
     command |-> l.cmd,
     action |-> l.tag.action,
     terminal |->
        IF m.quoted # Undefined THEN m.quoted
        ELSE IF m.unquoted # Undefined /\ m.unquoted # "interrupt" THEN m.unquoted
        ELSE Undefined,
     interrupt |-> (m.unquoted = "interrupt" \/ m.interrupt = "interrupt")]

ParserMatches(l) == l.k = "cmd" /\ CommandRegex(l.tag).ok

\* parseDocument(text): every match of every line, in order; line is 0-based.
ParseDocument(t) ==
    LET idx == SelectSeq([i \in 1..Len(t) |-> i], LAMBDA i : ParserMatches(t[i]))
    IN  [j \in 1..Len(idx) |->
            Descriptor(idx[j] - 1, t[idx[j]], CommandRegex(t[idx[j]].tag))]

\* parseLine(line, lineNumber): the first match of the line, or null.  The
\* result is a sequence: empty for null, else the one descriptor.
ParseLine(l, lineNumber) ==
    IF ~ParserMatches(l) THEN <<>>
    ELSE <<Descriptor(lineNumber, l, CommandRegex(l.tag))>>

(***************************************************************************)
(* getHtmlContent, step 1: the passes over the document text, before       *)
(* marked runs.  A matched region is replaced by a bare fence, a line      *)
(* holding a placeholder token, and the ``` that ended the match.          *)
(***************************************************************************)

\* The line ends with ``` and optional white space: it can start a match of
\* codeBlockWithCommandsRegex, ```\s*\n...
EndsWithFence(l) == l.k = "fence" /\ l.lang = ""

\* The line starts with ```: it can end a match of any of the block regexes.
StartsWithFence(l) == l.k \in {"fence", "runall"}

\* The keywords that begin with execute, copy or open.
StartsWithAction(keyword) == keyword \in ActionKeywords \cup {"executeall"}

\* .*\{\{\s*(?:execute|copy|open).* of codeBlockWithCommandsRegex (line
\* 411) on one line: the braces and the first letters of the directive,
\* whatever follows them.
HasActionTag(l) == l.k \in {"cmd", "runall"} /\ StartsWithAction(l.tag.action)

HasBacktick(l) == l.k \in {"cmd", "fence", "runall"}

Placeholder(kind, tok) == [k |-> "ph", kind |-> kind, tok |-> tok]

RECURSIVE SkipBlank(_, _)
SkipBlank(t, i) ==
    IF i <= Len(t) /\ t[i].k = "blank" THEN SkipBlank(t, i + 1) ELSE i

(* codeBlockWithCommandsRegex,
     ```\s*\n((?:.*\{\{\s*(?:execute|copy|open).*\n?)+)```
   tried at line i: \s* takes the blank lines, the group takes tagged lines,
   as many as leave a line starting with ``` right after them.  The result is
   the index of the last line of the group, or 0 when there is no match. *)
InlineBlockEnd(t, i) ==
    IF ~EndsWithFence(t[i]) THEN 0
    ELSE LET b == SkipBlank(t, i + 1)
             ends == {e \in b..(Len(t) - 1) :
                        /\ \A x \in b..e : HasActionTag(t[x])
                        /\ StartsWithFence(t[e + 1])}
         IN  IF ends = {} THEN 0 ELSE CHOOSE e \in ends : \A f \in ends : f <= e

\* processedContent.replace(codeBlockWithCommandsRegex, ...) (lines 411-418):
\* the lines left, and the inlineCommandBlocks map in insertion order.  The
\* n-th token drawn in a pass is seed + n.
RECURSIVE ExtractInlineBlocks(_, _, _)
ExtractInlineBlocks(t, i, tok) ==
    IF i > Len(t) THEN [out |-> <<>>, blocks |-> <<>>]
    ELSE LET e == InlineBlockEnd(t, i)
         IN  IF e = 0
             THEN LET r == ExtractInlineBlocks(t, i + 1, tok)
                  IN  [out |-> <<t[i]>> \o r.out, blocks |-> r.blocks]
             ELSE LET r == ExtractInlineBlocks(t, e + 2, tok + 1)
                      b == SkipBlank(t, i + 1)
                  IN  [out |-> <<t[i], Placeholder("INLINE_CMD_BLOCK", tok), t[e + 1]>>
                               \o r.out,
                       blocks |-> <<[id |-> tok, content |-> SubSeq(t, b, e)]>>
                                  \o r.blocks]

\* blockCommandRegex accepts the opening fence: ```lang{{ action args }}.
RunAllRegex(l) ==
    IF l.k = "runall" /\ l.tag.action \in ActionKeywords
    THEN MatchArgs(l.tag.args, {"sq", "dq"}, FALSE)
    ELSE NoMatch

RECURSIVE FirstBacktick(_, _)
FirstBacktick(t, i) ==
    IF i > Len(t) THEN 0
    ELSE IF HasBacktick(t[i]) THEN i ELSE FirstBacktick(t, i + 1)

(* blockCommandRegex, whose body group is "any characters but a backtick",
   tried at line i: the body runs to the first backtick of the text below the
   fence, which must start a ```.  The result is the index of the line that
   ends the match, or 0. *)
RunAllEnd(t, i) ==
    IF ~RunAllRegex(t[i]).ok THEN 0
    ELSE LET j == FirstBacktick(t, i + 1)
         IN  IF j # 0 /\ StartsWithFence(t[j]) THEN j ELSE 0

\* backtickPattern.exec in a loop (lines 425-431): the backticked spans of
\* the body, in order.
BacktickSpans(body) ==
    LET lines == SelectSeq(body, LAMBDA l : l.k = "cmd")
    IN  [x \in 1..Len(lines) |-> [k |-> "span", cmd |-> lines[x].cmd]]

\* The commands of a run-all body (lines 425-436): its spans, and when it
\* has none every non-blank line, trimmed.
BlockCommandList(body) ==
    IF BacktickSpans(body) # <<>> THEN BacktickSpans(body)
    ELSE SelectSeq(body, LAMBDA l : l.k # "blank")

\* commandData of a run-all block (lines 440-446).
CommandData(l, body) ==
    LET m == RunAllRegex(l)
    IN  [commands |-> BlockCommandList(body),
         action |-> l.tag.action,
         terminal |-> IF m.quoted # Undefined THEN m.quoted ELSE m.unquoted,
         interrupt |-> (m.interrupt = "interrupt" \/ m.unquoted = "interrupt"),
         language |-> IF l.lang = "" THEN Undefined ELSE l.lang]

\* processedContent.replace(blockCommandRegex, ...) (lines 421-456): the lines
\* left, and the entries set in this.blockCommands, in insertion order.
RECURSIVE ExtractRunAllBlocks(_, _, _)
ExtractRunAllBlocks(t, i, tok) ==
    IF i > Len(t) THEN [out |-> <<>>, blocks |-> <<>>]
    ELSE LET j == RunAllEnd(t, i)
         IN  IF j = 0
             THEN LET r == ExtractRunAllBlocks(t, i + 1, tok)
                  IN  [out |-> <<t[i]>> \o r.out, blocks |-> r.blocks]
             ELSE LET r == ExtractRunAllBlocks(t, j + 1, tok + 1)
                  IN  [out |-> <<Fence(""), Placeholder("MDCL_BLOCK", tok), t[j]>>
                               \o r.out,
                       blocks |-> <<[id |-> tok,
                                     data |-> CommandData(t[i], SubSeq(t, i + 1, j - 1))]>>
                                  \o r.blocks]

(***************************************************************************)
(* The quiz blocks (lines 458-471) and QuizProcessor (quizProcessor.ts).   *)
(***************************************************************************)

(* quizBlockRegex tried at line i: the fence ```quiz with its attributes,
   then a body of any characters but a backtick, which runs to the first
   backtick of the text below the fence, which must start a ```.  The result
   is the index of the line that ends the match, or 0. *)
QuizEnd(t, i) ==
    IF ~(t[i].k = "fence" /\ t[i].lang = "quiz") THEN 0
    ELSE LET j == FirstBacktick(t, i + 1)
         IN  IF j # 0 /\ StartsWithFence(t[j]) THEN j ELSE 0

\* The lines of a block that match optionRegex, the first line (the
\* question) left out (lines 22-33).
QuizOptions(lines) == SelectSeq(Tail(lines), LAMBDA l : "option" \in DOMAIN l)

\* A mutant of QuizQuestion: the id is taken before the block is rejected.
QuizQuestionIdFirst(lines, explicitId, answerKey, counter) ==
    [ok |-> Len(lines) >= 2 /\ Len(QuizOptions(lines)) >= 2,
     counter |-> IF explicitId # Undefined THEN counter ELSE counter + 1,
     html |-> [i |-> "quiz", id |-> IF explicitId # Undefined THEN explicitId
                                    ELSE "quiz_" \o ToString(counter),
               type |-> "multiple-choice", answerKey |-> answerKey]]

\* parseQuizBlock (lines 10-47) on the non-blank lines of the body: whether
\* there is a question, the counter it leaves, and the widget that
\* generateQuizHTML makes of the question.
QuizQuestion(lines, explicitId, answerKey, counter) ==
    IF Len(lines) < 2 \/ Len(QuizOptions(lines)) < 2
    THEN [ok |-> FALSE, counter |-> counter,
          html |-> [i |-> "quiz", id |-> Undefined, type |-> "multiple-choice",
                    answerKey |-> answerKey]]
    ELSE [ok |-> TRUE,
          counter |-> IF explicitId # Undefined THEN counter ELSE counter + 1,
          html |-> [i |-> "quiz", id |-> IF explicitId # Undefined THEN explicitId
                                         ELSE "quiz_" \o ToString(counter),
                    type |-> "multiple-choice", answerKey |-> answerKey]]

ParseQuizBlock(content, explicitId, answerKey, counter) ==
    QuizQuestion(SelectSeq(content, LAMBDA l : l.k # "blank"), explicitId, answerKey,
                 counter)

\* processedContent.replace(quizBlockRegex, ...) (lines 462-471) from line i
\* on: the lines left, the quizBlocks map in insertion order, and the quiz
\* counter.  A block without a question is left as it is.
RECURSIVE ExtractQuizBlocks(_, _, _, _, _, _)
QuizBlockMatched(t, i, j, tok, out, quizzes, quiz) ==
    IF quiz.ok
    THEN ExtractQuizBlocks(t, j + 1, tok + 1, quiz.counter,
                           out \o <<Fence(""), Placeholder("QUIZ_BLOCK", tok), t[j]>>,
                           Append(quizzes, [tok |-> tok, html |-> quiz.html]))
    ELSE ExtractQuizBlocks(t, j + 1, tok, quiz.counter, out \o SubSeq(t, i, j), quizzes)

ExtractQuizBlocks(t, i, tok, counter, out, quizzes) ==
    IF i > Len(t) THEN [out |-> out, quizzes |-> quizzes, counter |-> counter]
    ELSE IF QuizEnd(t, i) = 0
    THEN ExtractQuizBlocks(t, i + 1, tok, counter, Append(out, t[i]), quizzes)
    ELSE QuizBlockMatched(t, i, QuizEnd(t, i), tok, out, quizzes,
                          ParseQuizBlock(SubSeq(t, i + 1, QuizEnd(t, i) - 1), t[i].id,
                                         t[i].answerKey, counter))

(***************************************************************************)
(* getHtmlContent, step 2: marked.parse(processedContent), line 474.       *)
(* A line starting with ``` opens a code block, which runs to the next     *)
(* line holding nothing but a fence, or to the end of the text.  Outside   *)
(* code blocks a line is inline text: a backticked span becomes a <code>   *)
(* element with its text escaped, the rest is escaped text.                *)
(***************************************************************************)

RECURSIVE ClosingFence(_, _)
ClosingFence(t, i) ==
    IF i > Len(t) THEN i
    ELSE IF EndsWithFence(t[i]) THEN i ELSE ClosingFence(t, i + 1)

InlineHtml(l) ==
    CASE l.k = "cmd" -> <<[i |-> "code", c |-> MarkedEscape(l.cmd)],
                          [i |-> "tag", tag |-> l.tag]>>
      [] l.k = "ph" -> <<[i |-> "token", kind |-> l.kind, tok |-> l.tok]>>
      [] OTHER -> <<[i |-> "text"]>>

RECURSIVE Marked(_, _)
Marked(t, i) ==
    IF i > Len(t) THEN <<>>
    ELSE IF StartsWithFence(t[i])
         THEN LET c == ClosingFence(t, i + 1)
              IN  <<[e |-> "pre", lang |-> t[i].lang, body |-> SubSeq(t, i + 1, c - 1)]>>
                  \o Marked(t, c + 1)
         ELSE IF t[i].k = "blank" THEN Marked(t, i + 1)
         ELSE <<[e |-> "p", inl |-> InlineHtml(t[i])]>> \o Marked(t, i + 1)

(***************************************************************************)
(* getHtmlContent, step 3: the placeholders are replaced in marked's       *)
(* output, and the buttons take their ids from this.commandCounter.        *)
(***************************************************************************)

\* A mutant of CommandId: the id does not hold the counter.
CommandIdOfKind(prefix, n) == [prefix |-> prefix, n |-> 0]

\* `block_${this.commandCounter++}` (line 528), `cmd_${this.commandCounter++}`
\* (lines 560, 1340).
CommandId(prefix, n) == [prefix |-> prefix, n |-> n]

Button(id, executed, cmdObj, label) ==
    [i |-> "button", id |-> id, executed |-> id \in executed, cmd |-> cmdObj,
     label |-> label]

\* new RegExp(`<pre><code[^>]*>${blockId}\\s*</code></pre>`): a code block
\* holding the token and white space after it.
IsWrapperOf(el, kind, tok) ==
    /\ el.e = "pre"
    /\ el.body # <<>>
    /\ el.body[1] = Placeholder(kind, tok)
    /\ \A x \in 2..Len(el.body) : el.body[x].k = "blank"

RECURSIVE JoinCommands(_)
JoinCommands(cmds) ==
    IF cmds = <<>> THEN <<>>
    ELSE IF Len(cmds) = 1 THEN <<"line">>
    ELSE <<"line", "&&">> \o JoinCommands(Tail(cmds))

\* The markup of a run-all block (lines 488-536), and the counter after it.
RunAllElement(data, counter, executed) ==
    LET named == /\ data.action = "execute"
                 /\ data.terminal # Undefined
                 /\ data.terminal # "interrupt"
        intr == data.action = "execute" /\ ~named /\ data.interrupt
        cmdObj == [command |-> <<"eval">> \o JoinCommands(data.commands),
                   action |-> data.action,
                   terminal |-> IF named THEN data.terminal ELSE Undefined,
                   interrupt |-> intr]
        label == IF named THEN "Run All in " \o data.terminal
                 ELSE IF intr THEN "Interrupt & Run All" ELSE "Run All"
    IN  [e |-> "runall", commands |-> data.commands, language |-> data.language,
         button |-> Button(CommandId("block", counter), executed, cmdObj, label),
         counter |-> counter + 1]

\* htmlContent.replace(blockRegex, ...) for one entry of this.blockCommands.
RECURSIVE ReplaceRunAll(_, _, _, _, _)
ReplaceRunAll(h, i, entry, counter, executed) ==
    IF i > Len(h) THEN [html |-> <<>>, counter |-> counter]
    ELSE IF IsWrapperOf(h[i], "MDCL_BLOCK", entry.id)
         THEN LET el == RunAllElement(entry.data, counter, executed)
                  r == ReplaceRunAll(h, i + 1, entry, el.counter, executed)
              IN  [html |-> <<[x \in {"e", "commands", "language", "button"} |-> el[x]]>>
                            \o r.html,
                   counter |-> r.counter]
         ELSE LET r == ReplaceRunAll(h, i + 1, entry, counter, executed)
              IN  [html |-> <<h[i]>> \o r.html, counter |-> r.counter]

\* this.blockCommands.forEach(...) (lines 483-538).
RECURSIVE ReplaceRunAllBlocks(_, _, _, _, _)
ReplaceRunAllBlocks(h, entries, k, counter, executed) ==
    IF k > Len(entries) THEN [html |-> h, counter |-> counter]
    ELSE LET r == ReplaceRunAll(h, 1, entries[k], counter, executed)
         IN  ReplaceRunAllBlocks(r.html, entries, k + 1, r.counter, executed)

\* The command object of an execute button, in createCommandButton (lines
\* 1327-1336) and in a per-line block (lines 581-590): the interrupt flag is
\* looked at only when no terminal is named.
ExecuteFields(m) ==
    LET terminal == IF m.quoted # Undefined THEN m.quoted
                    ELSE IF m.unquoted # "interrupt" THEN m.unquoted ELSE Undefined
    IN  [terminal |-> terminal,
         interrupt |-> (terminal = Undefined /\
                        (m.interrupt = "interrupt" \/ m.unquoted = "interrupt"))]

ButtonLabel(action, f) ==
    CASE action = "copy" -> "Copy"
      [] action = "open" -> "Open"
      [] OTHER -> IF f.terminal # Undefined THEN "Run in " \o f.terminal
                  ELSE IF f.interrupt THEN "Interrupt & Run" ELSE "Run"

CommandObject(command, action, m) ==
    LET f == IF action = "execute" THEN ExecuteFields(m)
             ELSE [terminal |-> Undefined, interrupt |-> FALSE]
    IN  [command |-> command, action |-> action, terminal |-> f.terminal,
         interrupt |-> f.interrupt]

\* The expression a per-line block applies to each of its lines (line 554):
\* on the document text, either kind of quote.
BlockLineRegex(l) ==
    IF l.k = "cmd" /\ l.tag.action \in ActionKeywords
    THEN MatchArgs(l.tag.args, {"sq", "dq"}, FALSE)
    ELSE NoMatch

\* lines.map(...) of a per-line block (lines 551-598).
RECURSIVE PerLineItems(_, _, _, _)
PerLineItems(lines, i, counter, executed) ==
    IF i > Len(lines) THEN [items |-> <<>>, counter |-> counter]
    ELSE LET m == BlockLineRegex(lines[i])
         IN  IF m.ok
             THEN LET obj == CommandObject(lines[i].cmd, lines[i].tag.action, m)
                      r == PerLineItems(lines, i + 1, counter + 1, executed)
                  IN  [items |-> <<Button(CommandId("cmd", counter), executed, obj,
                                          ButtonLabel(obj.action, obj))>> \o r.items,
                       counter |-> r.counter]
             ELSE LET r == PerLineItems(lines, i + 1, counter, executed)
                  IN  [items |-> <<[i |-> "escaped", line |-> lines[i]]>> \o r.items,
                       counter |-> r.counter]

\* htmlContent.replace(blockRegex, ...) for one entry of inlineCommandBlocks.
RECURSIVE ReplacePerLine(_, _, _, _, _)
ReplacePerLine(h, i, entry, counter, executed) ==
    IF i > Len(h) THEN [html |-> <<>>, counter |-> counter]
    ELSE IF IsWrapperOf(h[i], "INLINE_CMD_BLOCK", entry.id)
         THEN LET b == PerLineItems(entry.content, 1, counter, executed)
                  r == ReplacePerLine(h, i + 1, entry, b.counter, executed)
              IN  [html |-> <<[e |-> "perline", items |-> b.items]>> \o r.html,
                   counter |-> r.counter]
         ELSE LET r == ReplacePerLine(h, i + 1, entry, counter, executed)
              IN  [html |-> <<h[i]>> \o r.html, counter |-> r.counter]

\* inlineCommandBlocks.forEach(...) (lines 545-604).
RECURSIVE ReplacePerLineBlocks(_, _, _, _, _)
ReplacePerLineBlocks(h, entries, k, counter, executed) ==
    IF k > Len(entries) THEN [html |-> h, counter |-> counter]
    ELSE LET r == ReplacePerLine(h, 1, entries[k], counter, executed)
         IN  ReplacePerLineBlocks(r.html, entries, k + 1, r.counter, executed)

(***************************************************************************)
(* getHtmlContent, step 4: inline commands, on marked's output.            *)
(***************************************************************************)

\* inlineCommandRegex (line 607): the quoted alternative is &#39;([^&]+)&#39;.
InlineCommandRegex(tag) ==
    IF tag.action \in ActionKeywords THEN MatchArgs(tag.args, {"sq"}, TRUE)
    ELSE NoMatch

\* escapeHtml (lines 1389-1398), one character.
EscapeHtmlChar(c) ==
    CASE c = "&" -> EntAmp
      [] c = "<" -> EntLt
      [] c = ">" -> EntGt
      [] c = "\"" -> EntQuot
      [] c = "'" -> <<"&", "#", "0", "3", "9", ";">>
      [] OTHER -> <<c>>

RECURSIVE EscapeHtml(_)
EscapeHtml(s) ==
    IF s = <<>> THEN <<>> ELSE EscapeHtmlChar(Head(s)) \o EscapeHtml(Tail(s))

\* createCommandButton (lines 1300-1345): the markup, for the id cmd_<counter>.
CreateCommandButton(command, action, m, counter, executed) ==
    LET obj == CommandObject(UnescapeHtml(command), action, m)
    IN  <<[i |-> "code", c |-> EscapeHtml(obj.command)],
          Button(CommandId("cmd", counter), executed, obj, ButtonLabel(action, obj))>>

\* Is this inline content a <code> element followed by a directive the
\* expression accepts?
IsInlineCommand(inl) ==
    /\ Len(inl) = 2
    /\ inl[1].i = "code"
    /\ inl[2].i = "tag"
    /\ InlineCommandRegex(inl[2].tag).ok

\* htmlContent.replace(inlineCommandRegex, ...) (lines 609-611).
RECURSIVE ReplaceInlineCommands(_, _, _, _)
ReplaceInlineCommands(h, i, counter, executed) ==
    IF i > Len(h) THEN [html |-> <<>>, counter |-> counter]
    ELSE IF h[i].e = "p" /\ IsInlineCommand(h[i].inl)
         THEN LET b == CreateCommandButton(h[i].inl[1].c, h[i].inl[2].tag.action,
                           InlineCommandRegex(h[i].inl[2].tag), counter, executed)
                  r == ReplaceInlineCommands(h, i + 1, counter + 1, executed)
              IN  [html |-> <<[e |-> "p", inl |-> b]>> \o r.html, counter |-> r.counter]
         ELSE LET r == ReplaceInlineCommands(h, i + 1, counter, executed)
              IN  [html |-> <<h[i]>> \o r.html, counter |-> r.counter]

NoBlockCommands == [defined |-> FALSE, entries |-> <<>>]

\* quizBlocks.forEach (lines 477-480): the wrapper of each marker is
\* replaced by the widget of its quiz.
RECURSIVE ReplaceQuizBlocks(_, _, _)
ReplaceQuizBlocks(h, quizzes, n) ==
    IF n > Len(quizzes) THEN h
    ELSE ReplaceQuizBlocks(
             [x \in 1..Len(h) |->
                 IF IsWrapperOf(h[x], "QUIZ_BLOCK", quizzes[n].tok)
                 THEN [e |-> "quiz", widget |-> quizzes[n].html] ELSE h[x]],
             quizzes, n + 1)

\* inlineQuizRegex (line 628) accepts the <code> element and the text after
\* it: a quiz tag with its optional quoted attributes.
IsInlineQuiz(inl) ==
    /\ Len(inl) = 2
    /\ inl[1].i = "code"
    /\ inl[2].i = "tag"
    /\ inl[2].tag.action = "quiz"

\* parseInlineQuiz (lines 49-59) and generateQuizHTML.
ParseInlineQuiz(tag, counter) ==
    [i |-> "quiz", id |-> IF tag.id # Undefined THEN tag.id
                          ELSE "quiz_" \o ToString(counter),
     type |-> "text", answerKey |-> tag.answerKey]

\* htmlContent.replace(inlineQuizRegex, ...) (lines 630-640) from element i
\* on: the markup, and the quiz counter.
RECURSIVE ReplaceInlineQuizzes(_, _, _, _)
ReplaceInlineQuizzes(h, i, counter, out) ==
    IF i > Len(h) THEN [html |-> out, counter |-> counter]
    ELSE IF h[i].e = "p" /\ IsInlineQuiz(h[i].inl)
    THEN ReplaceInlineQuizzes(h, i + 1,
             IF h[i].inl[2].tag.id # Undefined THEN counter ELSE counter + 1,
             Append(out, [e |-> "p", inl |-> <<ParseInlineQuiz(h[i].inl[2].tag, counter)>>]))
    ELSE ReplaceInlineQuizzes(h, i + 1, counter, Append(out, h[i]))

\* messageRegex (line 614) accepts the <code> element and the text after
\* it: the kind of the message between the braces and nothing else.
MessageKinds == {"note", "info", "tip", "warning", "danger", "hint"}

IsMessage(inl) ==
    /\ Len(inl) = 2
    /\ inl[1].i = "code"
    /\ inl[2].i = "tag"
    /\ inl[2].tag.action \in MessageKinds
    /\ inl[2].tag.args = <<>>

\* createMessageBox (lines 1347-1387): hint is shown as a tip.
CreateMessageBox(message, type) ==
    [i |-> "message", type |-> type,
     class |-> IF type = "hint" THEN "tip" ELSE type,
     c |-> EscapeHtml(message)]

\* htmlContent.replace(messageRegex, ...) (lines 616-625).
ReplaceMessages(h) ==
    [x \in 1..Len(h) |->
        IF h[x].e = "p" /\ IsMessage(h[x].inl)
        THEN [e |-> "p",
              inl |-> <<CreateMessageBox(UnescapeHtml(h[x].inl[1].c),
                                         h[x].inl[2].tag.action)>>]
        ELSE h[x]]

MessagePass(r) == [r EXCEPT !.html = ReplaceMessages(r.html)]

\* The three substitution passes, each on the markup and counter the pass
\* before it left.
RunAllPass(h, bc, blocks, counter, executed) ==
    IF bc.defined \/ blocks # <<>>
    THEN ReplaceRunAllBlocks(h, bc.entries \o blocks, 1, counter, executed)
    ELSE [html |-> h, counter |-> counter]

PerLinePass(r, blocks, executed) ==
    ReplacePerLineBlocks(r.html, blocks, 1, r.counter, executed)

InlinePass(r, executed) == ReplaceInlineCommands(r.html, 1, r.counter, executed)

\* What getHtmlContent leaves: the markup and the two fields.  The map
\* this.blockCommands is created once (lines 449-451) and cleared at line 541.
Rendered(r, defined) ==
    [html |-> r.html, commandCounter |-> r.counter,
     blockCommands |-> [defined |-> defined, entries |-> <<>>]]

\* A mutant of Substitute: the inline commands are replaced before the
\* placeholders of the blocks.
SubstituteInlineFirst(inlineBlocks, p2, executed, counter, bc) ==
    Rendered(PerLinePass(
                 LET r == InlinePass([html |-> ReplaceQuizBlocks(Marked(p2.out, 1), p2.quizzes, 1),
                                      counter |-> counter],
                                     executed)
                 IN  RunAllPass(r.html, bc, p2.blocks, r.counter, executed),
                 inlineBlocks, executed),
             bc.defined \/ p2.blocks # <<>>)

\* Lines 474-611: marked.parse, then the quiz blocks, the run-all blocks,
\* the per-line blocks and the inline commands, in this order.
Substitute(inlineBlocks, p2, executed, counter, bc) ==
    Rendered(InlinePass(PerLinePass(RunAllPass(ReplaceQuizBlocks(Marked(p2.out, 1),
                                                                 p2.quizzes, 1),
                                               bc, p2.blocks, counter, executed),
                                    inlineBlocks, executed),
                        executed),
             bc.defined \/ p2.blocks # <<>>)

\* Lines 627-640 on what the passes before have left: the inline quizzes.
WithInlineQuizzes(r, q) ==
    [html |-> q.html, commandCounter |-> r.commandCounter,
     blockCommands |-> r.blockCommands, quizCounter |-> q.counter]

InlineQuizPass(r, qc) ==
    WithInlineQuizzes(r, ReplaceInlineQuizzes(r.html, 1, qc, <<>>))

\* Lines 474-640, given what the extraction of the quiz blocks left.
AfterQuizBlocks(inlineBlocks, blocks, q, executed, counter, bc) ==
    InlineQuizPass(MessagePass(Substitute(inlineBlocks,
                                          [out |-> q.out, blocks |-> blocks,
                                           quizzes |-> q.quizzes],
                                          executed, counter, bc)),
                   q.counter)

\* Lines 458-640, given what the extraction of the run-all blocks left.
AfterRunAllBlocks(inlineBlocks, p2, executed, counter, bc, tok, qc) ==
    AfterQuizBlocks(inlineBlocks, p2.blocks,
                    ExtractQuizBlocks(p2.out, 1, tok + Len(p2.blocks), qc,
                                      <<>>, <<>>),
                    executed, counter, bc)

\* Lines 421-640, given what the extraction of the per-line blocks left.
AfterInlineBlocks(p1, executed, counter, bc, seed, qc) ==
    AfterRunAllBlocks(p1.blocks,
                      ExtractRunAllBlocks(p1.out, 1, seed + Len(p1.blocks)),
                      executed, counter, bc, seed + Len(p1.blocks), qc)

(* getHtmlContent (lines 404-640) on the text t: the markup, and the
   commandCounter, blockCommands and quiz counter it leaves.  counter, bc and
   qc are the fields as it finds them; seed stands for the state of
   Math.random, whose successive values are seed, seed + 1, ... *)
GetHtmlContent(t, executed, counter, bc, seed, qc) ==
    AfterInlineBlocks(ExtractInlineBlocks(t, 1, seed), executed, counter, bc, seed,
                      qc)

\* The buttons of a piece of markup, in the order of the markup.
RECURSIVE ButtonsOf(_)
ButtonsOf(h) ==
    IF h = <<>> THEN <<>>
    ELSE LET el == Head(h)
             bs == CASE el.e = "runall" -> <<el.button>>
                     [] el.e = "perline" ->
                           SelectSeq(el.items, LAMBDA x : x.i = "button")
                     [] el.e = "p" -> SelectSeq(el.inl, LAMBDA x : x.i = "button")
                     [] OTHER -> <<>>
         IN  bs \o ButtonsOf(Tail(h))

(***************************************************************************)
(* AnswerKeyLoader.validateAnswer (answerKeyLoader.ts).  An answer of the  *)
(* key is a record: correct and the user's answer are [list, v], a string  *)
(* being list = FALSE with the one element v[1]; alternatives is           *)
(* [present, v]; caseSensitive is "absent", "true" or "false".             *)
(***************************************************************************)

\* String.prototype.toLowerCase, on the characters of the model.
LowerChar(c) == IF c = "B" THEN "b" ELSE c
ToLowerCase(s) == [i \in 1..Len(s) |-> LowerChar(s[i])]

\* String.prototype.trim.
RECURSIVE TrimStart(_)
TrimStart(s) == IF s # <<>> /\ Head(s) = " " THEN TrimStart(Tail(s)) ELSE s
RECURSIVE TrimEnd(_)
TrimEnd(s) ==
    IF s # <<>> /\ s[Len(s)] = " " THEN TrimEnd(SubSeq(s, 1, Len(s) - 1)) ELSE s
Trim(s) == TrimEnd(TrimStart(s))

\* A mutant of NormalizeAnswer: lowercase unless caseSensitive is true.
NormalizeAnswerUnlessTrue(answer, ans) ==
    IF answer.caseSensitive # "true" THEN Trim(ToLowerCase(ans)) ELSE Trim(ans)

\* normalizeAnswer (lines 92-97).
NormalizeAnswer(answer, ans) ==
    IF answer.caseSensitive = "false" THEN Trim(ToLowerCase(ans)) ELSE Trim(ans)

\* Array.prototype.includes.
Includes(arr, x) == \E i \in 1..Len(arr) : arr[i] = x

NormalizeAll(answer, arr) == [i \in 1..Len(arr) |-> NormalizeAnswer(answer, arr[i])]

\* The explanation of the result for a question without an answer (line 85).
NoAnswerKeyFound == "No answer key found for this question"

\* A correctAnswer field that the result does not have.
NoCorrectAnswer == [present |-> FALSE, v |-> [list |-> FALSE, v |-> <<<<>>>>]]

\* The result of line 85: correct false, the explanation, no correctAnswer.
NoAnswerResult ==
    [threw |-> FALSE, correct |-> FALSE, explanation |-> NoAnswerKeyFound,
     correctAnswer |-> NoCorrectAnswer]

\* A TypeError escapes validateAnswer: there is no result.
Threw ==
    [threw |-> TRUE, correct |-> FALSE, explanation |-> Undefined,
     correctAnswer |-> NoCorrectAnswer]

\* A mutant of Result: the feedback fields only on an incorrect answer.
ResultFeedbackWhenWrong(answer, correct) ==
    [threw |-> FALSE, correct |-> correct,
     explanation |-> IF correct THEN Undefined ELSE answer.explanation,
     correctAnswer |-> IF correct THEN NoCorrectAnswer
                       ELSE [present |-> TRUE, v |-> answer.correct]]

\* The result of lines 123-127.
Result(answer, correct) ==
    [threw |-> FALSE, correct |-> correct, explanation |-> answer.explanation,
     correctAnswer |-> [present |-> TRUE, v |-> answer.correct]]

\* validateAnswer (lines 79-128): whether it threw, and the fields of its
\* result.  answerKey is "null", "object" (a value with an answers map) or
\* "noAnswers" (a truthy value without one, whose answers is undefined:
\* indexing it on line 84 throws a TypeError); hasKey tells whether
\* answers[questionId] is there.  userAnswers[0] of an empty list is
\* undefined, on which normalizeAnswer throws a TypeError.
ValidateAnswer(answerKey, hasKey, answer, userAnswer) ==
    IF answerKey = "null" THEN NoAnswerResult
    ELSE IF answerKey = "noAnswers" THEN Threw
    ELSE IF ~hasKey THEN NoAnswerResult
    ELSE IF answer.correct.list
    THEN Result(answer,
             /\ Len(answer.correct.v) = Len(userAnswer.v)
             /\ \A i \in 1..Len(answer.correct.v) :
                   Includes(NormalizeAll(answer, userAnswer.v),
                            NormalizeAll(answer, answer.correct.v)[i]))
    ELSE IF userAnswer.v = <<>> THEN Threw
    ELSE Result(answer,
             \/ NormalizeAnswer(answer, userAnswer.v[1])
                   = NormalizeAnswer(answer, answer.correct.v[1])
             \/ /\ answer.alternatives.present
                /\ Includes(NormalizeAll(answer, answer.alternatives.v),
                            NormalizeAnswer(answer, userAnswer.v[1])))

(***************************************************************************)
(* The answer-key cache and loadAnswerKey (class AnswerKeyLoader).         *)
(*                                                                         *)
(* A path is a sequence of tokens whose concatenation is the path string:  *)
(* the directory with its separator first, then the pieces of the file     *)
(* name.  The tokens are chosen so that two paths or cache keys are the    *)
(* same string exactly when they are the same sequence.                    *)
(***************************************************************************)

MaxFiles == 2           \* files that exist next to the documents

\* The fsPath of the documents whose answer keys are loaded; on a POSIX
\* file system a file name may hold a colon.
DocPaths ==
    {<<"/w/", "a", ".mdcl">>, <<"/w/", "a", ".mdcl", ":", "k", ".mdcl">>}

\* The customName argument; <<>> is undefined (like the empty string, falsy).
CustomNames == {<<>>, <<"k", ".mdcl">>}

\* String.prototype.replace with a string pattern: the first occurrence.
RECURSIVE ReplaceFirst(_, _, _)
ReplaceFirst(path, pattern, by) ==
    IF path = <<>> THEN <<>>
    ELSE IF Head(path) = pattern THEN <<by>> \o Tail(path)
    ELSE <<Head(path)>> \o ReplaceFirst(Tail(path), pattern, by)

\* The cache key (line 12).
CacheKey(mdclPath, customName) ==
    IF customName # <<>> THEN mdclPath \o <<":">> \o customName ELSE mdclPath

\* A mutant of PossiblePaths: the .yml candidate before the .yaml one.
PossiblePathsYmlFirst(mdclPath, customName) ==
    IF customName # <<>>
    THEN <<<<Head(mdclPath)>> \o customName \o <<".yml">>,
           <<Head(mdclPath)>> \o customName \o <<".yaml">>,
           <<Head(mdclPath)>> \o customName>>
    ELSE <<ReplaceFirst(mdclPath, ".mdcl", ".mdclanswer.yml"),
           ReplaceFirst(mdclPath, ".mdcl", ".mdclanswer.yaml"),
           ReplaceFirst(mdclPath, ".mdcl", ".mdclanswer")>>

\* possiblePaths (lines 19-36); path.dirname is the first token and
\* path.join appends the name to it.
PossiblePaths(mdclPath, customName) ==
    IF customName # <<>>
    THEN <<<<Head(mdclPath)>> \o customName \o <<".yaml">>,
           <<Head(mdclPath)>> \o customName \o <<".yml">>,
           <<Head(mdclPath)>> \o customName>>
    ELSE <<ReplaceFirst(mdclPath, ".mdcl", ".mdclanswer.yaml"),
           ReplaceFirst(mdclPath, ".mdcl", ".mdclanswer.yml"),
           ReplaceFirst(mdclPath, ".mdcl", ".mdclanswer")>>

\* Every path that a call may look at.
AnswerPaths ==
    {PossiblePaths(d, c)[i] : d \in DocPaths, c \in CustomNames, i \in 1..3}

\* What a path holds: no file; a file that readFileSync throws on; a file
\* whose text does not parse or parses to a falsy value (empty, null); a
\* file that parses to an answer key; a file that parses to another truthy
\* value (a word, a list, a map without answers).
Missing == "missing"
FileContents == {"unreadable", "invalid", "key", "scalar"}

\* null, the key that a file with a key parses to, and the value that a
\* file with another value parses to: yaml.parse(content) as AnswerKey
\* (line 63) is returned whatever it is.
Null == [from |-> <<>>]
KeyOf(answerPath) == [from |-> answerPath]
ValueOf(answerPath) == [from |-> answerPath, scalar |-> TRUE]

\* One turn of the loop (lines 39-52): existsSync, readFileSync and
\* parseAnswerKey (lines 59-77), whose failures are caught and logged.
ParseAnswerKey(content, answerPath) ==
    CASE content = "key" -> KeyOf(answerPath)
      [] content = "scalar" -> ValueOf(answerPath)
      [] OTHER -> Null

\* The loop over possiblePaths (lines 38-53) from candidate i on: the key
\* it returns (null after the last candidate, line 56) and how many
\* candidates it has tested with existsSync.
RECURSIVE TryPaths(_, _, _)
TryPaths(possiblePaths, i, fs) ==
    IF i > Len(possiblePaths) THEN [key |-> Null, looked |-> Len(possiblePaths)]
    ELSE IF ParseAnswerKey(fs[possiblePaths[i]], possiblePaths[i]) # Null
    THEN [key |-> ParseAnswerKey(fs[possiblePaths[i]], possiblePaths[i]), looked |-> i]
    ELSE TryPaths(possiblePaths, i + 1, fs)

NoLoad ==
    [done |-> FALSE, mdclPath |-> <<>>, customName |-> <<>>, key |-> Null,
     looked |-> 0, wasLoaded |-> FALSE]

\* The call has resolved to r.
Resolved(mdclPath, customName, r) ==
    lastLoad' = [done |-> TRUE, mdclPath |-> mdclPath, customName |-> customName,
                 key |-> r.key, looked |-> r.looked,
                 wasLoaded |-> <<mdclPath, customName>> \in loaded]

\* Lines 38-56 for the cache key: a key that was parsed is cached.
LoadFromFiles(mdclPath, customName, cacheKey, r) ==
    /\ Resolved(mdclPath, customName, r)
    /\ IF r.key # Null
       THEN /\ answerKeys' = (cacheKey :> r.key) @@ answerKeys
            /\ loaded' = loaded \cup {<<mdclPath, customName>>}
       ELSE UNCHANGED <<answerKeys, loaded>>

\* loadAnswerKey (lines 10-57).  The function has no await: it runs to its
\* end within the call.
LoadAnswerKey(mdclPath, customName) ==
    /\ IF CacheKey(mdclPath, customName) \in DOMAIN answerKeys
       THEN /\ Resolved(mdclPath, customName,
                        [key |-> answerKeys[CacheKey(mdclPath, customName)], looked |-> 0])
            /\ UNCHANGED <<answerKeys, loaded>>
       ELSE LoadFromFiles(mdclPath, customName, CacheKey(mdclPath, customName),
                          TryPaths(PossiblePaths(mdclPath, customName), 1, files))
    /\ UNCHANGED <<text, panelVars, parserVars, validateVars, files, executorVars,
                   sessionVars>>

\* clearCache (lines 130-136): without a path the map is emptied, with a
\* path the entry under that path is deleted.
ClearCache(mdclPath) ==
    /\ IF mdclPath # <<>>
       THEN /\ answerKeys' = [k \in DOMAIN answerKeys \ {mdclPath} |-> answerKeys[k]]
            /\ loaded' = loaded \ {<<mdclPath, <<>>>>}
       ELSE /\ answerKeys' = <<>>
            /\ loaded' = {}
    /\ UNCHANGED <<text, panelVars, parserVars, validateVars, files, lastLoad,
                   executorVars, sessionVars>>

\* loadAnswerKey as its callers in the panel see it: the key the promise
\* resolves to, and the cache the call leaves (lines 15-17, 38-56).
LoadedKey(cache, mdclPath, customName) ==
    IF CacheKey(mdclPath, customName) \in DOMAIN cache
    THEN cache[CacheKey(mdclPath, customName)]
    ELSE TryPaths(PossiblePaths(mdclPath, customName), 1, files).key

CacheAfterLoad(cache, mdclPath, customName) ==
    IF CacheKey(mdclPath, customName) \notin DOMAIN cache
       /\ LoadedKey(cache, mdclPath, customName) # Null
    THEN (CacheKey(mdclPath, customName) :> LoadedKey(cache, mdclPath, customName))
         @@ cache
    ELSE cache

\* A loader that has not been called, on a file system without answer keys.
LoaderIdle ==
    /\ answerKeys = <<>>
    /\ files = [f \in AnswerPaths |-> Missing]
    /\ lastLoad = NoLoad
    /\ loaded = {}

\* An executor that has dispatched nothing.
ExecutorIdle ==
    /\ terminals = <<>>
    /\ exited = {}
    /\ dispatches = {}
    /\ events = <<>>
    /\ started = 0

\* The fields of a panel that has got no message, no scroll event and no
\* answer key, and an editor that has opened no document.
SessionIdle ==
    /\ currentAnswerKey = Null
    /\ scrollPosition = 0
    /\ isScrolling = FALSE
    /\ webviewPanels = {}
    /\ quizResults = <<>>
    /\ checked = <<>>
    /\ resetTimers = <<>>
    /\ forwarded = <<>>
    /\ autoOpenTimers = <<>>

IdleComponents == LoaderIdle /\ ExecutorIdle /\ SessionIdle

(***************************************************************************)
(* The preview panel (class MDCLPreviewPanel).                             *)
(***************************************************************************)

Docs == {"A", "B"}

MaxPanels == 2          \* panels constructed in one run
MaxSessionLines == 2    \* lines of a document that is edited during a session
MaxPending == 1         \* executeCommand handlers suspended at the same time
NumSeeds == 2           \* states of Math.random a render pass may start from
MaxSegments == 3        \* segments of a document whose render is examined
MaxArgs == 2            \* argument tokens of a directive
MaxCmdLen == 4          \* characters of a command text
MaxStrLen == 2          \* characters of a quiz answer
MaxAnswers == 2         \* entries of a list of answers
MaxAlternatives == 1    \* entries of alternatives

Seeds == 1..NumSeeds

\* update() (lines 388-402): the counter is reset and the markup is built.
RenderPass(t, executed, counter, bc, seed) ==
    GetHtmlContent(t, executed, 0, bc, seed, 0)

\* The fields update() writes, given the result of the pass.  fresh tells
\* that the text or the execution state differs from those of the pass before.
SetRendered(r, fresh) ==
    /\ commandCounter' = r.commandCounter
    /\ quizCounter' = r.quizCounter
    /\ blockCommands' = r.blockCommands
    /\ html' = r.html
    /\ firstHtml' = IF fresh \/ firstHtml = <<>> THEN <<r.html>> ELSE firstHtml

\* document.uri.fsPath of the documents.
FsPath(d) ==
    IF d = "A" THEN <<"/w/", "a", ".mdcl">>
    ELSE <<"/w/", "a", ".mdcl", ":", "k", ".mdcl">>

\* update(), lines 393-399: loadAnswerKey runs to its end within the call,
\* for it has no await; the reaction that stores the key runs when the
\* handler that called update() returns, before any other event is handled.
\* cache is the answerKeys of the panel's loader.
LoadsKey(cache, d) ==
    /\ answerKeys' = CacheAfterLoad(cache, FsPath(d), <<>>)
    /\ currentAnswerKey' = LoadedKey(cache, FsPath(d), <<>>)

\* update() as a step, for the document d that the panel shows.
Update(d, cache, t, executed, counter, bc, seed, fresh) ==
    /\ LoadsKey(cache, d)
    /\ SetRendered(RenderPass(t, executed, counter, bc, seed), fresh)

\* createOrShow (lines 227-253), and the constructor (lines 255-281) when
\* there is no panel.
\* A mutant of HasCurrentPanel: createOrShow never finds a panel.
HasNoCurrentPanel(cp) == FALSE

\* if (MDCLPreviewPanel.currentPanel) (line 234).
HasCurrentPanel(cp) == cp

\* createOrShow (lines 227-253) and, for a new panel, the constructor.
CreateOrShowCall(d, seed) ==
    /\ IF HasCurrentPanel(currentPanel)
       THEN /\ document' = d
            /\ Update(d, answerKeys, text[d], executedCommands, commandCounter,
                      blockCommands, seed, d # document)
            /\ UNCHANGED <<currentPanel, epoch, executedCommands, clickedOn,
                           fieldVars, webviewPanels>>
       ELSE /\ epoch < MaxPanels
            /\ webviewPanels' = webviewPanels \cup {epoch + 1}
            /\ currentPanel' = TRUE
            /\ epoch' = epoch + 1
            /\ document' = d
            /\ executedCommands' = {}
            /\ clickedOn' = {}
            /\ scrollPosition' = 0
            /\ isScrolling' = FALSE
            /\ Update(d, <<>>, text[d], {}, 0, NoBlockCommands, seed, TRUE)
    /\ UNCHANGED <<text, pending, parserVars, validateVars, loaderFiles, executorVars,
                   quizResults, checked, resetTimers, forwarded>>

\* The commands mdcl.openPreview and mdcl.openAsPreview (lines 45-70) on the
\* active editor's document d.
CreateOrShow(d, seed) ==
    /\ CreateOrShowCall(d, seed)
    /\ UNCHANGED autoOpenTimers

\* dispose (lines 1400-1410), called when the user closes the panel.
MaxTimers == 2          \* timers of one kind pending at the same time
MaxScrolls == 2         \* scroll events passed on in one run

\* The message saveScrollPosition (lines 296-298).
SaveScrollPositionMessage(position) ==
    /\ currentPanel
    /\ scrollPosition' = position
    /\ UNCHANGED <<text, panelVars, parserVars, validateVars, loaderVars, executorVars,
                   currentAnswerKey, isScrolling, webviewPanels, messageVars>>

\* A mutant of ScrollGuard: the flag is not looked at.
ScrollGuardOpen(enabled, scrolling) == enabled

\* this.scrollSyncEnabled && !this.isScrolling (lines 301, 335-336).
ScrollGuard(enabled, scrolling) == enabled /\ ~scrolling

\* Lines 301-307 and 334-342: behind the guard the flag is set, the event is
\* passed on to the other side, and the timer of 100 ms is started.  The
\* field scrollSyncEnabled is true and never written (line 221).
ForwardScroll(to) ==
    IF ScrollGuard(TRUE, isScrolling)
    THEN /\ isScrolling' = TRUE
         /\ forwarded' = Append(forwarded, [to |-> to, epoch |-> epoch,
                                            scrolling |-> isScrolling])
         /\ resetTimers' = Append(resetTimers, epoch)
    ELSE UNCHANGED <<isScrolling, forwarded, resetTimers>>

\* The message syncScrollFromPreview (lines 299-308).
SyncScrollFromPreviewMessage ==
    /\ currentPanel
    /\ Len(forwarded) < MaxScrolls
    /\ ForwardScroll("editor")
    /\ UNCHANGED <<text, panelVars, parserVars, validateVars, loaderVars, executorVars,
                   currentAnswerKey, scrollPosition, webviewPanels, quizResults,
                   checked, autoOpenTimers>>

\* onDidChangeTextEditorVisibleRanges (lines 332-343) for an editor of the
\* document d; the listener is disposed with the panel.
ChangeTextEditorVisibleRanges(d) ==
    /\ currentPanel
    /\ Len(forwarded) < MaxScrolls
    /\ IF d = document THEN ForwardScroll("preview")
       ELSE UNCHANGED <<isScrolling, forwarded, resetTimers>>
    /\ UNCHANGED <<text, panelVars, parserVars, validateVars, loaderVars, executorVars,
                   currentAnswerKey, scrollPosition, webviewPanels, quizResults,
                   checked, autoOpenTimers>>

\* The oldest timer of lines 304 and 339 fires: the flag of the panel that
\* started it is cleared.
ResetTimerFires ==
    /\ resetTimers # <<>>
    /\ resetTimers' = Tail(resetTimers)
    /\ isScrolling' = IF Head(resetTimers) = epoch THEN FALSE ELSE isScrolling
    /\ UNCHANGED <<text, panelVars, parserVars, validateVars, loaderVars, executorVars,
                   currentAnswerKey, scrollPosition, webviewPanels, quizResults,
                   checked, forwarded, autoOpenTimers>>

\* onDidOpenTextDocument (lines 108-137) for the mdcl document d, with
\* autoOpenPreview set: the timer of 750 ms is started.
OpenTextDocument(d) ==
    /\ Len(autoOpenTimers) < MaxTimers
    /\ autoOpenTimers' = Append(autoOpenTimers, d)
    /\ UNCHANGED <<text, panelVars, parserVars, validateVars, loaderVars, executorVars,
                   currentAnswerKey, fieldVars, webviewPanels, quizResults, checked,
                   resetTimers, forwarded>>

\* The oldest timer of line 118 fires (lines 118-135); visible tells whether
\* an editor shows its document.
AutoOpenTimerFires(visible, seed) ==
    /\ autoOpenTimers # <<>>
    /\ autoOpenTimers' = Tail(autoOpenTimers)
    /\ IF visible /\ ~currentPanel
       THEN CreateOrShowCall(Head(autoOpenTimers), seed)
       ELSE UNCHANGED <<text, panelVars, parserVars, validateVars, loaderVars,
                        executorVars, currentAnswerKey, fieldVars, webviewPanels,
                        quizResults, checked, resetTimers, forwarded>>

\* onDidChangeActiveTextEditor (lines 140-160) for an editor of the mdcl
\* document d, with autoOpenPreview set.
ChangeActiveTextEditor(d, seed) ==
    /\ ~currentPanel
    /\ CreateOrShow(d, seed)

Dispose ==
    /\ currentPanel
    /\ currentPanel' = FALSE
    /\ webviewPanels' = webviewPanels \ {epoch}
    /\ UNCHANGED <<text, epoch, document, executedCommands, commandCounter, quizCounter,
                   blockCommands, html, pending, clickedOn, firstHtml, parserVars,
                   validateVars, answerKeys, currentAnswerKey, fieldVars, otherVars>>

\* onDidChangeTextDocument (lines 345-353) for a change that makes the text
\* of document d be t: the panel re-renders when d is the document it shows.
ChangeTextDocument(d, t, seed) ==
    /\ text' = [text EXCEPT ![d] = t]
    /\ IF currentPanel /\ d = document
       THEN Update(d, answerKeys, t, executedCommands, commandCounter, blockCommands,
                   seed, TRUE)
       ELSE UNCHANGED <<commandCounter, quizCounter, blockCommands, html, firstHtml,
                        answerKeys, currentAnswerKey>>
    /\ UNCHANGED <<currentPanel, epoch, document, executedCommands, pending, clickedOn,
                   parserVars, validateVars, fieldVars, webviewPanels, otherVars>>

InsertAt(t, pos, l) == SubSeq(t, 1, pos - 1) \o <<l>> \o SubSeq(t, pos, Len(t))
RemoveAt(t, pos) == SubSeq(t, 1, pos - 1) \o SubSeq(t, pos + 1, Len(t))

SessionLines == {TextLine, CmdLine(<<"l">>, Tag("execute", <<>>))}

InsertLine(d, pos, l, seed) ==
    /\ Len(text[d]) < MaxSessionLines
    /\ ChangeTextDocument(d, InsertAt(text[d], pos, l), seed)

DeleteLine(d, pos, seed) == ChangeTextDocument(d, RemoveAt(text[d], pos), seed)

\* The webview posts executeCommand for the button b of the markup it shows;
\* the handler (lines 286-288) calls executor.execute and is suspended.
ReceiveExecuteCommand(b) ==
    /\ currentPanel
    /\ Cardinality(pending) < MaxPending
    /\ pending' = pending \cup {[epoch |-> epoch, commandId |-> b.id]}
    /\ clickedOn' = clickedOn \cup {<<document, b.id>>}
    /\ UNCHANGED <<text, currentPanel, epoch, document, executedCommands, commandCounter,
                   quizCounter, blockCommands, html, firstHtml, parserVars,
                   validateVars, componentVars>>

\* message.commandId of a message that has none.
NoCommandId == [prefix |-> Undefined, n |-> 0]

\* A mutant of HasCommandId: the commandId of the message is not tested.
HasAnyCommandId(commandId) == TRUE

\* if (message.commandId) (line 290).
HasCommandId(commandId) == commandId # NoCommandId

\* A mutant of MarkExecuted: the state is replaced by the id.
MarkExecutedOnly(executed, commandId) == {commandId}

\* this.executedCommands.add(message.commandId) (line 291).
MarkExecuted(executed, commandId) == executed \cup {commandId}

\* The handler resumes (lines 289-294); a message without a commandId ends
\* there.  The handler belongs to the panel object that received the
\* message: a handler of an earlier panel object writes the fields of that
\* object, which no render reads any more.  On a disposed panel update()
\* resets the counters, loads the key and then fails on
\* `this._panel.webview'.
ResumeHandler(p, seed) ==
    IF p.epoch # epoch \/ ~HasCommandId(p.commandId)
    THEN UNCHANGED <<executedCommands, commandCounter, quizCounter, blockCommands,
                     html, firstHtml, answerKeys, currentAnswerKey>>
    ELSE /\ executedCommands' = MarkExecuted(executedCommands, p.commandId)
         /\ IF currentPanel
            THEN Update(document, answerKeys, text[document], executedCommands',
                        commandCounter, blockCommands, seed, TRUE)
            ELSE /\ commandCounter' = 0
                 /\ quizCounter' = 0
                 /\ LoadsKey(answerKeys, document)
                 /\ UNCHANGED <<blockCommands, html, firstHtml>>

CompleteExecuteCommand(p, seed) ==
    /\ p \in pending
    /\ pending' = pending \ {p}
    /\ ResumeHandler(p, seed)
    /\ UNCHANGED <<text, currentPanel, epoch, document, clickedOn, parserVars,
                   validateVars, fieldVars, webviewPanels, otherVars>>

(***************************************************************************)
(* The executeCommand handler with the executor it calls (class            *)
(* CommandExecutor, commandExecutor.ts).  An event is what a dispatch did:  *)
(* n is the number of the dispatch and interrupt the flag of its command,  *)
(* t is the terminal (0 for none), data the text sent, or the channel name *)
(* of a terminal that is created.                                          *)
(***************************************************************************)

MaxDispatches == 2      \* executeCommand messages dispatched in one run

Event(n, command, ev, t, data) ==
    [n |-> n, interrupt |-> command.interrupt, ev |-> ev, t |-> t, data |-> data]

\* The terminal that window.createTerminal returns next.
NextTerminal ==
    1 + Cardinality({x \in 1..Len(events) : events[x].ev = "create"})

\* command.terminal || 'main' (line 25).
TerminalName(command) ==
    IF command.terminal # Undefined THEN command.terminal ELSE "main"

\* A terminal has to be created (line 28).
NeedsTerminal(name) == name \notin DOMAIN terminals \/ terminals[name] \in exited

\* command.command.replace(/!/g, '\\!') (line 45).
EscapedCommand(command) == ReplaceAll(command.command, <<"!">>, <<"\\", "!">>)

\* A mutant of ExecuteInTerminal: a terminal is created for every dispatch.
ExecuteInTerminalAlwaysNew(n, command, name, t) ==
    /\ terminals' = (name :> NextTerminal) @@ terminals
    /\ events' = events \o <<Event(n, command, "create", NextTerminal, <<name>>)>>
                   \o (IF command.interrupt
                       THEN <<Event(n, command, "cancel", NextTerminal, <<"^C">>)>>
                       ELSE <<Event(n, command, "text", NextTerminal,
                                    EscapedCommand(command))>>)
    /\ UNCHANGED exited

\* executeInTerminal (lines 24-47) up to its await, or to its end when the
\* command does not interrupt: t is the terminal it uses.
ExecuteInTerminal(n, command, name, t) ==
    /\ terminals' = IF NeedsTerminal(name) THEN (name :> t) @@ terminals ELSE terminals
    /\ events' = events
                   \o (IF NeedsTerminal(name)
                       THEN <<Event(n, command, "create", t, <<name>>)>> ELSE <<>>)
                   \o (IF command.interrupt
                       THEN <<Event(n, command, "cancel", t, <<"^C">>)>>
                       ELSE <<Event(n, command, "text", t, EscapedCommand(command))>>)
    /\ UNCHANGED exited

\* The handler up to where it is suspended.
Dispatch(n, b, t, stage) ==
    [n |-> n, epoch |-> epoch, commandId |-> b.id, command |-> b.cmd, t |-> t,
     stage |-> stage]

\* The webview posts executeCommand for the button b: the handler (lines
\* 286-288) calls executor.execute (lines 10-22), which runs to its first
\* await that has to wait.
ExecuteCommandMessage(b) ==
    /\ currentPanel
    /\ started < MaxDispatches
    /\ started' = started + 1
    /\ CASE b.cmd.action = "execute" ->
             /\ ExecuteInTerminal(started + 1, b.cmd, TerminalName(b.cmd),
                                  IF NeedsTerminal(TerminalName(b.cmd)) THEN NextTerminal
                                  ELSE terminals[TerminalName(b.cmd)])
             /\ dispatches' = dispatches \cup
                   {Dispatch(started + 1, b,
                             IF NeedsTerminal(TerminalName(b.cmd)) THEN NextTerminal
                             ELSE terminals[TerminalName(b.cmd)],
                             IF b.cmd.interrupt THEN "delay" ELSE "sent")}
         [] b.cmd.action = "copy" ->
             /\ dispatches' = dispatches \cup {Dispatch(started + 1, b, 0, "clipboard")}
             /\ UNCHANGED <<terminals, exited, events>>
         [] b.cmd.action = "open" ->
             /\ dispatches' = dispatches \cup {Dispatch(started + 1, b, 0, "open")}
             /\ UNCHANGED <<terminals, exited, events>>
    /\ UNCHANGED <<text, panelVars, parserVars, validateVars, loaderVars, sessionVars>>

\* The user closes a terminal: its exitStatus becomes defined.
CloseTerminal(t) ==
    /\ t \in 1..(NextTerminal - 1)
    /\ t \notin exited
    /\ exited' = exited \cup {t}
    /\ UNCHANGED <<text, panelVars, parserVars, validateVars, loaderVars, sessionVars,
                   terminals, dispatches, events, started>>

\* A mutant of ExecutorResumes: the text is sent without the cancel signal
\* having had its delay.
ExecutorResumesNoDelay(d, ok) ==
    IF d.stage = "delay"
    THEN <<Event(d.n, d.command, "text", d.t, EscapedCommand(d.command))>>
    ELSE <<>>

\* What the executor does when the awaited operation of d is over; ok tells
\* whether the clipboard write or the opening of the file succeeded.
\*   delay: the timer of interruptDelay has fired, the text is sent (46);
\*   clipboard: the message of line 51, or the rejection of writeText, which
\*     nothing catches;
\*   open: nothing more, or the error message of line 76.
ExecutorResumes(d, ok) ==
    CASE d.stage = "delay" ->
            <<Event(d.n, d.command, "delay", d.t, <<>>),
              Event(d.n, d.command, "text", d.t, EscapedCommand(d.command))>>
      [] d.stage = "sent" -> <<>>
      [] d.stage = "clipboard" ->
            IF ok THEN <<Event(d.n, d.command, "info", 0, <<>>)>>
            ELSE <<Event(d.n, d.command, "failed", 0, <<>>),
                   Event(d.n, d.command, "throw", 0, <<>>)>>
      [] d.stage = "open" ->
            IF ok THEN <<>>
            ELSE <<Event(d.n, d.command, "failed", 0, <<>>),
                   Event(d.n, d.command, "error", 0, <<>>)>>

\* executor.execute has thrown: the handler ends there, its promise rejected.
Throws(d, ok) == d.stage = "clipboard" /\ ~ok

\* The awaited operation of d is over: the executor and then the handler
\* (lines 289-294) run to their ends.
ResumeDispatch(d, ok, seed) ==
    /\ d \in dispatches
    /\ ok \/ d.stage \in {"clipboard", "open"}
    /\ dispatches' = dispatches \ {d}
    /\ events' = events \o ExecutorResumes(d, ok)
    /\ IF Throws(d, ok)
       THEN UNCHANGED <<executedCommands, commandCounter, quizCounter, blockCommands,
                        html, firstHtml, answerKeys, currentAnswerKey>>
       ELSE ResumeHandler(d, seed)
    /\ UNCHANGED <<text, currentPanel, epoch, document, pending, clickedOn, parserVars,
                   validateVars, loaderFiles, fieldVars, webviewPanels, messageVars,
                   terminals, exited, started>>

NotParsed == [done |-> FALSE, cmds |-> <<>>]
AString(x) == [list |-> FALSE, v |-> <<x>>]
AList(xs) == [list |-> TRUE, v |-> xs]
NoAlternatives == [present |-> FALSE, v |-> <<>>]

\* No validateAnswer call: the call of a question without an answer key.
NoCall ==
    [answerKey |-> "null",
     hasKey |-> FALSE,
     answer |-> [correct |-> AString(<<>>), alternatives |-> NoAlternatives,
                 caseSensitive |-> "absent", explanation |-> Undefined],
     user |-> AString(<<>>)]
NoResult ==
    [done |-> FALSE, threw |-> FALSE, correct |-> FALSE,
     explanation |-> Undefined, correctAnswer |-> NoCorrectAnswer]

\* What the handler has got from validateAnswer.
Validated(r) ==
    vresult' = [done |-> TRUE, threw |-> r.threw, correct |-> r.correct,
                explanation |-> r.explanation, correctAnswer |-> r.correctAnswer]

\* The checkQuizAnswer handler (lines 309-325) calls validateAnswer with the
\* answer of the message.
CheckQuizAnswer ==
    /\ Validated(ValidateAnswer(vcall.answerKey, vcall.hasKey, vcall.answer, vcall.user))
    /\ UNCHANGED <<text, panelVars, parserVars, vcall, componentVars>>

\* The webview posts checkQuizAnswer: the handler runs on the panel that
\* received it and leaves the execution state and the markup alone.
ReceiveCheckQuizAnswer == currentPanel /\ CheckQuizAnswer

(***************************************************************************)
(* The checkQuizAnswer handler as a whole (lines 309-325).  It runs from   *)
(* the message to the reply without another event in between: its only     *)
(* await is on loadAnswerKey, which has no await itself.                   *)
(***************************************************************************)

MaxChecks == 2          \* checkQuizAnswer messages handled in one run

\* The quiz widgets of the markup, in its order.
RECURSIVE QuizWidgets(_)
QuizWidgets(h) ==
    IF h = <<>> THEN <<>>
    ELSE (IF Head(h).e = "quiz" THEN <<Head(h).widget>>
          ELSE IF Head(h).e = "p" /\ Head(h).inl # <<>> /\ Head(h).inl[1].i = "quiz"
          THEN <<Head(h).inl[1]>>
          ELSE <<>>)
         \o QuizWidgets(Tail(h))

\* The data-answer-key attribute of a widget as the customName of the call:
\* getAttribute gives null for a widget without the attribute.
CustomName(attr) == IF attr = "k.mdcl" THEN <<"k", ".mdcl">> ELSE <<>>

\* What validateAnswer sees of a key: null, a value without an answers map,
\* or an object with one.
KeyKind(key) ==
    IF key = Null THEN "null"
    ELSE IF "scalar" \in DOMAIN key THEN "noAnswers"
    ELSE "object"

\* The answers map of an answer file with a key: it holds question q1.
HoldsQuestion(quizId) == quizId = "q1"
AnswerOfKey ==
    [correct |-> [list |-> FALSE, v |-> <<<<"b">>>>],
     alternatives |-> [present |-> FALSE, v |-> <<>>],
     caseSensitive |-> "absent", explanation |-> Undefined]

\* answerKeyToUse (lines 311-313).
AnswerKeyToUse(customName) ==
    IF customName # <<>> THEN LoadedKey(answerKeys, FsPath(document), customName)
    ELSE currentAnswerKey

\* Lines 315-324: the reply is posted unless validateAnswer has thrown.
PostsQuizResult(quizId, r) ==
    quizResults' =
        IF r.threw THEN quizResults
        ELSE Append(quizResults,
                    [quizId |-> quizId, correct |-> r.correct,
                     explanation |-> r.explanation, correctAnswer |-> r.correctAnswer])

\* The webview posts checkQuizAnswer for the widget w with the text the
\* user has entered (handleQuizCheck, lines 1189-1219).
CheckQuizAnswerMessage(w, answer) ==
    /\ currentPanel
    /\ Len(checked) < MaxChecks
    /\ checked' = Append(checked,
                         [quizId |-> w.id, customName |-> CustomName(w.answerKey),
                          document |-> document,
                          key |-> AnswerKeyToUse(CustomName(w.answerKey))])
    /\ answerKeys' = IF CustomName(w.answerKey) # <<>>
                     THEN CacheAfterLoad(answerKeys, FsPath(document),
                                         CustomName(w.answerKey))
                     ELSE answerKeys
    /\ PostsQuizResult(w.id,
                       ValidateAnswer(KeyKind(AnswerKeyToUse(CustomName(w.answerKey))),
                                      HoldsQuestion(w.id), AnswerOfKey,
                                      [list |-> FALSE, v |-> <<answer>>]))
    /\ UNCHANGED <<text, panelVars, parserVars, validateVars, loaderFiles, executorVars,
                   currentAnswerKey, fieldVars, webviewPanels, resetTimers, forwarded,
                   autoOpenTimers>>

PanelInit ==
    /\ currentPanel = FALSE
    /\ epoch = 0
    /\ document = Undefined
    /\ executedCommands = {}
    /\ commandCounter = 0
    /\ quizCounter = 0
    /\ blockCommands = NoBlockCommands
    /\ html = <<>>
    /\ pending = {}
    /\ clickedOn = {}
    /\ firstHtml = <<>>

Init ==
    /\ text = [d \in Docs |-> <<>>]
    /\ PanelInit
    /\ parsed = NotParsed
    /\ parsedLine = NotParsed
    /\ vcall = NoCall
    /\ vresult = NoResult
    /\ IdleComponents

Next ==
    \/ \E d \in Docs, seed \in Seeds : CreateOrShow(d, seed)
    \/ Dispose
    \/ \E d \in Docs, seed \in Seeds, l \in SessionLines :
          \E pos \in 1..(Len(text[d]) + 1) : InsertLine(d, pos, l, seed)
    \/ \E d \in Docs, seed \in Seeds : \E pos \in 1..Len(text[d]) : DeleteLine(d, pos, seed)
    \/ \E i \in 1..Len(ButtonsOf(html)) : ReceiveExecuteCommand(ButtonsOf(html)[i])
    \/ \E p \in pending, seed \in Seeds : CompleteExecuteCommand(p, seed)
    \/ ReceiveCheckQuizAnswer

Spec == Init /\ [][Next]_vars

(***************************************************************************)
(* Renders of one document: the panel is opened on document A, whose text  *)
(* does not change, shown again and its buttons are used.                  *)
(***************************************************************************)

RECURSIVE SeqsUpTo(_, _)
SeqsUpTo(S, n) ==
    IF n = 0 THEN {<<>>}
    ELSE LET shorter == SeqsUpTo(S, n - 1)
         IN  shorter \cup {Append(q, x) : q \in shorter, x \in S}

PlainCommand == CmdLine(<<"l">>, Tag("execute", <<>>))

\* A document is put together from single lines and from whole blocks: a
\* run-all block and a per-line command block.
RenderSegments ==
    {<<TextLine>>, <<BlankLine>>, <<Fence("")>>, <<Fence("js")>>,
     <<RunAllFence("", Tag("execute", <<>>))>>, <<PlainCommand>>,
     <<RunAllFence("", Tag("execute", <<>>)), TextLine, Fence("")>>,
     <<Fence(""), PlainCommand, Fence("")>>}

RECURSIVE Flatten(_)
Flatten(ss) == IF ss = <<>> THEN <<>> ELSE Head(ss) \o Flatten(Tail(ss))

InitRender ==
    /\ \E ss \in SeqsUpTo(RenderSegments, MaxSegments) :
          text = [d \in Docs |-> IF d = "A" THEN Flatten(ss) ELSE <<>>]
    /\ PanelInit
    /\ parsed = NotParsed
    /\ parsedLine = NotParsed
    /\ vcall = NoCall
    /\ vresult = NoResult
    /\ IdleComponents

NextRender ==
    \/ \E seed \in Seeds : CreateOrShow("A", seed)
    \/ \E i \in 1..Len(ButtonsOf(html)) : ReceiveExecuteCommand(ButtonsOf(html)[i])
    \/ \E p \in pending, seed \in Seeds : CompleteExecuteCommand(p, seed)

SpecRender == InitRender /\ [][NextRender]_vars

(***************************************************************************)
(* The render of documents with quizzes.                                   *)
(***************************************************************************)

MaxQuizSegments == 3    \* segments of a document with quizzes

\* A document with quizzes is put together from prose, inline quizzes and
\* whole quiz blocks: with a question and two options, with a question and
\* one option, and with a question only.
QuizSegments ==
    {<<TextLine>>,
     <<QuizLine(Undefined, Undefined)>>,
     <<QuizLine("q1", Undefined)>>,
     <<QuizFence(Undefined, Undefined), TextLine, OptionLine("A"), OptionLine("B"),
       Fence("")>>,
     <<QuizFence("q1", Undefined), TextLine, OptionLine("A"), OptionLine("B"),
       Fence("")>>,
     <<QuizFence("quiz_0", Undefined), TextLine, BlankLine, OptionLine("A"),
       OptionLine("B"), Fence("")>>,
     <<QuizFence(Undefined, Undefined), TextLine, OptionLine("A"), Fence("")>>,
     <<QuizFence(Undefined, Undefined), TextLine, Fence("")>>}

InitQuiz ==
    /\ \E ss \in SeqsUpTo(QuizSegments, MaxQuizSegments) :
          text = [d \in Docs |-> IF d = "A" THEN Flatten(ss) ELSE <<>>]
    /\ PanelInit
    /\ parsed = NotParsed
    /\ parsedLine = NotParsed
    /\ vcall = NoCall
    /\ vresult = NoResult
    /\ IdleComponents

NextQuiz ==
    \/ \E seed \in Seeds : CreateOrShow("A", seed)
    \/ Dispose

SpecQuiz == InitQuiz /\ [][NextQuiz]_vars

(***************************************************************************)
(* Dispatches of the buttons of one document, and terminals that exit.     *)
(***************************************************************************)

\* A document with a command of each kind.
ExecutorDocument ==
    <<CmdLine(<<"l">>, Tag("execute", <<>>)),
      CmdLine(<<"l", "!">>, Tag("execute", <<Bare("interrupt")>>)),
      CmdLine(<<"l">>, Tag("execute", <<Sq("t2")>>)),
      CmdLine(<<"l">>, Tag("copy", <<>>)),
      CmdLine(<<"l">>, Tag("open", <<>>))>>

InitExecutor ==
    /\ text = [d \in Docs |-> IF d = "A" THEN ExecutorDocument ELSE <<>>]
    /\ PanelInit
    /\ parsed = NotParsed
    /\ parsedLine = NotParsed
    /\ vcall = NoCall
    /\ vresult = NoResult
    /\ IdleComponents

NextExecutor ==
    \/ \E seed \in Seeds : CreateOrShow("A", seed)
    \/ \E i \in 1..Len(ButtonsOf(html)) : ExecuteCommandMessage(ButtonsOf(html)[i])
    \/ \E t \in 1..MaxDispatches : CloseTerminal(t)
    \/ \E d \in dispatches, ok \in BOOLEAN, seed \in Seeds : ResumeDispatch(d, ok, seed)

SpecExecutor == InitExecutor /\ [][NextExecutor]_vars

(***************************************************************************)
(* Quizzes checked while the panel is shown, closed and pointed to another *)
(* document, on a file system with answer files.                           *)
(***************************************************************************)

\* Questions with and without an id that the answer files hold, with and
\* without a custom answer key.
AnswersDocument ==
    <<QuizLine("q1", Undefined), QuizLine("q1", "k.mdcl"), QuizLine(Undefined, Undefined)>>

UserAnswers == {<<"b">>, <<"c">>}

InitAnswers ==
    /\ text = [d \in Docs |-> AnswersDocument]
    /\ PanelInit
    /\ parsed = NotParsed
    /\ parsedLine = NotParsed
    /\ vcall = NoCall
    /\ vresult = NoResult
    /\ answerKeys = <<>>
    /\ \E present \in SUBSET AnswerPaths :
          /\ Cardinality(present) <= MaxFiles
          /\ \E contents \in [present -> {"key", "scalar"}] :
                files = [f \in AnswerPaths |->
                            IF f \in present THEN contents[f] ELSE Missing]
    /\ lastLoad = NoLoad
    /\ loaded = {}
    /\ ExecutorIdle
    /\ SessionIdle

NextAnswers ==
    \/ \E d \in Docs : CreateOrShow(d, 1)
    \/ Dispose
    \/ \E i \in 1..Len(QuizWidgets(html)), a \in UserAnswers :
          CheckQuizAnswerMessage(QuizWidgets(html)[i], a)

SpecAnswers == InitAnswers /\ [][NextAnswers]_vars

(***************************************************************************)
(* One inline command line, parsed by CommandParser and rendered by the    *)
(* preview.                                                                *)
(***************************************************************************)

\* MDCLCodeLensProvider.provideCodeLenses: parser.parseDocument(getText()).
ProvideCodeLenses(d) ==
    /\ parsed' = [done |-> TRUE, cmds |-> ParseDocument(text[d])]
    /\ UNCHANGED <<text, panelVars, parsedLine, validateVars, componentVars>>

\* A call parseLine(line, lineNumber) on a line of document d.
ParseLineCall(d, i) ==
    /\ parsedLine' = [done |-> TRUE, cmds |-> ParseLine(text[d][i], i - 1)]
    /\ UNCHANGED <<text, panelVars, parsed, validateVars, componentVars>>

CommandChars == {"l", "t", "&", ";"}
Names == {"t2", "interrupt"}
Tokens == {Bare(w) : w \in Names} \cup {Sq(w) : w \in Names} \cup {Dq(w) : w \in Names}

CommandTexts == SeqsUpTo(CommandChars, MaxCmdLen) \ {<<>>}
TagArguments == SeqsUpTo(Tokens, MaxArgs)

OneLine(l) == [d \in Docs |-> IF d = "A" THEN <<l>> ELSE <<>>]

\* Every command text with the directives of the plainest kinds, or the
\* plainest command text with any directive.
InitTags ==
    /\ \/ \E c \in CommandTexts, a \in {<<>>, <<Bare("interrupt")>>} :
             text = OneLine(CmdLine(c, Tag("execute", a)))
       \/ \E act \in ActionKeywords \cup {"run"}, a \in TagArguments :
             text = OneLine(CmdLine(<<"l">>, Tag(act, a)))
    /\ PanelInit
    /\ parsed = NotParsed
    /\ parsedLine = NotParsed
    /\ vcall = NoCall
    /\ vresult = NoResult
    /\ IdleComponents

NextTags ==
    \/ \E seed \in Seeds : CreateOrShow("A", seed)
    \/ ProvideCodeLenses("A")
    \/ ParseLineCall("A", 1)

SpecTags == InitTags /\ [][NextTags]_vars

(***************************************************************************)
(* Documents with directives that no pass knows, in prose and in fenced    *)
(* blocks.                                                                 *)
(***************************************************************************)

MaxDirectiveLines == 4  \* lines of a document with unknown directives

DirectiveLines ==
    {TextLine, Fence(""), RunAllFence("", Tag("execute", <<>>)), PlainCommand,
     CmdLine(<<"l">>, Tag("run", <<>>)),
     CmdLine(<<"l">>, Tag("executeall", <<>>)),
     CmdLine(<<"l">>, Tag("note", <<>>))}

InitDirectives ==
    /\ \E t \in SeqsUpTo(DirectiveLines, MaxDirectiveLines) :
          text = [d \in Docs |-> IF d = "A" THEN t ELSE <<>>]
    /\ PanelInit
    /\ parsed = NotParsed
    /\ parsedLine = NotParsed
    /\ vcall = NoCall
    /\ vresult = NoResult
    /\ IdleComponents

NextDirectives ==
    \/ CreateOrShow("A", 1)
    \/ ProvideCodeLenses("A")
    \/ Dispose

SpecDirectives == InitDirectives /\ [][NextDirectives]_vars

(***************************************************************************)
(* The ways in which a preview is opened and closed.                       *)
(***************************************************************************)

InitOpen ==
    /\ \E l \in {TextLine, PlainCommand} :
          text = [d \in Docs |-> IF d = "A" THEN <<l>> ELSE <<TextLine, l>>]
    /\ PanelInit
    /\ parsed = NotParsed
    /\ parsedLine = NotParsed
    /\ vcall = NoCall
    /\ vresult = NoResult
    /\ IdleComponents

NextOpen ==
    \/ \E d \in Docs : CreateOrShow(d, 1)
    \/ \E d \in Docs : OpenTextDocument(d)
    \/ \E visible \in BOOLEAN : AutoOpenTimerFires(visible, 1)
    \/ \E d \in Docs : ChangeActiveTextEditor(d, 1)
    \/ Dispose

SpecOpen == InitOpen /\ [][NextOpen]_vars

(***************************************************************************)
(* The messages of the webview and the events of the editor, on a panel    *)
(* that shows commands and a quiz.                                         *)
(***************************************************************************)

MessagesDocument ==
    <<PlainCommand, CmdLine(<<"l">>, Tag("copy", <<>>)), QuizLine("q1", Undefined)>>

InitMessages ==
    /\ text = [d \in Docs |-> IF d = "A" THEN MessagesDocument ELSE <<>>]
    /\ PanelInit
    /\ parsed = NotParsed
    /\ parsedLine = NotParsed
    /\ vcall = NoCall
    /\ vresult = NoResult
    /\ IdleComponents

NextMessages ==
    \/ CreateOrShow("A", 1)
    \/ Dispose
    \/ \E i \in 1..Len(ButtonsOf(html)) : ExecuteCommandMessage(ButtonsOf(html)[i])
    \/ /\ ButtonsOf(html) # <<>>
       /\ ExecuteCommandMessage([ButtonsOf(html)[1] EXCEPT !.id = NoCommandId])
    \/ \E d \in dispatches, ok \in BOOLEAN : ResumeDispatch(d, ok, 1)
    \/ SaveScrollPositionMessage(1)
    \/ SyncScrollFromPreviewMessage
    \/ ResetTimerFires
    \/ \E i \in 1..Len(QuizWidgets(html)) :
          CheckQuizAnswerMessage(QuizWidgets(html)[i], <<"b">>)
    \/ ChangeTextDocument("A", <<PlainCommand>>, 1)

SpecMessages == InitMessages /\ [][NextMessages]_vars

(***************************************************************************)
(* Scrolling in the editor and in the preview.                             *)
(***************************************************************************)

InitScroll ==
    /\ text = [d \in Docs |-> <<TextLine>>]
    /\ PanelInit
    /\ parsed = NotParsed
    /\ parsedLine = NotParsed
    /\ vcall = NoCall
    /\ vresult = NoResult
    /\ IdleComponents

NextScroll ==
    \/ \E d \in Docs : CreateOrShow(d, 1)
    \/ Dispose
    \/ \E position \in 0..1 : SaveScrollPositionMessage(position)
    \/ SyncScrollFromPreviewMessage
    \/ \E d \in Docs : ChangeTextEditorVisibleRanges(d)
    \/ ResetTimerFires

\* A timer that has been started fires.
SpecScroll == InitScroll /\ [][NextScroll]_vars /\ WF_vars(ResetTimerFires)

(***************************************************************************)
(* Documents put together from whole run-all blocks, whose bodies are      *)
(* plain lines or backticked spans.                                        *)
(***************************************************************************)

MaxBlockSegments == 3   \* segments of a document with run-all blocks

SpanLine == CmdLine(<<"l">>, Tag("", <<>>))      \* `l` and nothing after it

RunAllBlock(body) == <<RunAllFence("", Tag("execute", <<>>))>> \o body \o <<Fence("")>>

BlockSegments ==
    {<<TextLine>>, <<PlainCommand>>,
     RunAllBlock(<<TextLine>>), RunAllBlock(<<TextLine, BlankLine, TextLine>>),
     RunAllBlock(<<SpanLine>>), RunAllBlock(<<SpanLine, TextLine, SpanLine>>)}

InitBlocks ==
    /\ \E ss \in SeqsUpTo(BlockSegments, MaxBlockSegments) :
          text = [d \in Docs |-> IF d = "A" THEN Flatten(ss) ELSE <<>>]
    /\ PanelInit
    /\ parsed = NotParsed
    /\ parsedLine = NotParsed
    /\ vcall = NoCall
    /\ vresult = NoResult
    /\ IdleComponents

NextBlocks ==
    \/ CreateOrShow("A", 1)
    \/ \E i \in 1..Len(ButtonsOf(html)) : ReceiveExecuteCommand(ButtonsOf(html)[i])
    \/ \E p \in pending : CompleteExecuteCommand(p, 1)
    \/ Dispose

SpecBlocks == InitBlocks /\ [][NextBlocks]_vars

(***************************************************************************)
(* One validateAnswer call.                                                *)
(***************************************************************************)

AnswerChars == {" ", "b", "B"}
AnswerStrings == SeqsUpTo(AnswerChars, MaxStrLen)
ListItems == {<<"b">>, <<"B">>, <<"c">>}
AnswerLists == SeqsUpTo(ListItems, MaxAnswers)
AlternativeItems == {<<"b">>, <<"B", " ">>}
Alternatives ==
    {NoAlternatives}
    \cup {[present |-> TRUE, v |-> a] : a \in SeqsUpTo(AlternativeItems, MaxAlternatives)}
CaseSensitive == {"absent", "true", "false"}

KeyAnswer(correct, alternatives, cs) ==
    [correct |-> correct, alternatives |-> alternatives, caseSensitive |-> cs,
     explanation |-> Undefined]

\* The answer with the explanation that the key configures for it.
Explained(answer, e) == [answer EXCEPT !.explanation = e]
Explanations == {Undefined, "because"}

Call(answer, user) ==
    [answerKey |-> "object", hasKey |-> TRUE, answer |-> answer, user |-> user]

\* The call of a question that has no answer: there is no key (null), the
\* key has an answers map without the question, or the key is a value that
\* the loader has parsed from a file without an answers map.
AnswerKeys == {"null", "object", "noAnswers"}
CallWithout(answerKey, user) == [NoCall EXCEPT !.answerKey = answerKey, !.user = user]

\* A question the key does not hold; a string key with a string answer; a
\* string key with a list answer; a list key with either; an answer with an
\* explanation.
InitValidate ==
    /\ text = [d \in Docs |-> <<>>]
    /\ PanelInit
    /\ parsed = NotParsed
    /\ parsedLine = NotParsed
    /\ \/ vcall = NoCall
       \/ \E k \in AnswerKeys, u \in ListItems : vcall = CallWithout(k, AString(u))
       \/ \E k \in AnswerKeys, u \in AnswerLists : vcall = CallWithout(k, AList(u))
       \/ \E c \in AnswerStrings, a \in Alternatives, cs \in CaseSensitive,
             u \in AnswerStrings :
             vcall = Call(KeyAnswer(AString(c), a, cs), AString(u))
       \/ \E c \in ListItems, cs \in CaseSensitive, u \in AnswerLists :
             vcall = Call(KeyAnswer(AString(c), NoAlternatives, cs), AList(u))
       \/ \E c \in AnswerLists, cs \in CaseSensitive, u \in AnswerLists :
             vcall = Call(KeyAnswer(AList(c), NoAlternatives, cs), AList(u))
       \/ \E c \in AnswerLists, cs \in CaseSensitive, u \in ListItems :
             vcall = Call(KeyAnswer(AList(c), NoAlternatives, cs), AString(u))
       \/ \E c \in ListItems, e \in Explanations, u \in ListItems :
             vcall = Call(Explained(KeyAnswer(AString(c), NoAlternatives, "absent"), e),
                          AString(u))
       \/ \E c \in AnswerLists, e \in Explanations, u \in AnswerLists :
             vcall = Call(Explained(KeyAnswer(AList(c), NoAlternatives, "absent"), e),
                          AList(u))
    /\ vresult = NoResult
    /\ IdleComponents

NextValidate == CheckQuizAnswer

SpecValidate == InitValidate /\ [][NextValidate]_vars

(***************************************************************************)
(* loadAnswerKey and clearCache calls on a file system with answer files.  *)
(***************************************************************************)

InitLoader ==
    /\ text = [d \in Docs |-> <<>>]
    /\ PanelInit
    /\ parsed = NotParsed
    /\ parsedLine = NotParsed
    /\ vcall = NoCall
    /\ vresult = NoResult
    /\ answerKeys = <<>>
    /\ \E present \in SUBSET AnswerPaths :
          /\ Cardinality(present) <= MaxFiles
          /\ \E contents \in [present -> FileContents] :
                files = [f \in AnswerPaths |->
                            IF f \in present THEN contents[f] ELSE Missing]
    /\ lastLoad = NoLoad
    /\ loaded = {}
    /\ ExecutorIdle
    /\ SessionIdle

NextLoader ==
    \/ \E d \in DocPaths, c \in CustomNames : LoadAnswerKey(d, c)
    \/ \E d \in DocPaths \cup {<<>>} : ClearCache(d)

SpecLoader == InitLoader /\ [][NextLoader]_vars

(***************************************************************************)
(* Properties of the renders.                                              *)
(***************************************************************************)

\* C1: every render pass of the same text with the same execution state
\* yields the markup the first such pass yielded.
C1_RenderIdempotent == firstHtml # <<>> => html = firstHtml[1]

\* The buttons in the order of the passes: the run-all blocks, the per-line
\* blocks, the inline commands, each kind in document order.
PassOrder(h) ==
    ButtonsOf(SelectSeq(h, LAMBDA el : el.e = "runall"))
    \o ButtonsOf(SelectSeq(h, LAMBDA el : el.e = "perline"))
    \o ButtonsOf(SelectSeq(h, LAMBDA el : el.e = "p"))

OnlyInlineCommands(t) ==
    /\ \A i \in 1..Len(t) : t[i].k # "runall"
    /\ \A j \in 1..Len(Marked(t, 1)) :
          Marked(t, 1)[j].e = "pre" =>
             \A x \in 1..Len(Marked(t, 1)[j].body) : Marked(t, 1)[j].body[x].k # "cmd"

InlineCommandCount(t) == Len(SelectSeq(t, LAMBDA l : l.k = "cmd"))

\* C5: a document whose only interactive elements are n inline commands is
\* rendered with n buttons, whose ids are cmd_0 .. cmd_(n-1) in document order.
C5_InlineIdsSequential ==
    (currentPanel /\ OnlyInlineCommands(text[document])) =>
        /\ Len(ButtonsOf(html)) = InlineCommandCount(text[document])
        /\ \A i \in 1..Len(ButtonsOf(html)) :
              ButtonsOf(html)[i].id = CommandId("cmd", i - 1)

(***************************************************************************)
(* Properties of the execution state.                                      *)
(***************************************************************************)

C2_Step ==
    \/ ~currentPanel /\ currentPanel'
    \/ /\ executedCommands \subseteq executedCommands'
       /\ currentPanel' =>
             \A i \in 1..Len(ButtonsOf(html')) :
                ButtonsOf(html')[i].id \in executedCommands =>
                   ButtonsOf(html')[i].executed

\* C2: a command id stays in the execution state across every step but the
\* creation of a new panel, and every render of the session marks the
\* buttons of the ids recorded before it.
C2_ExecutionStatePersists == [][C2_Step]_vars

\* Two commands have been executed one after the other, and the render that
\* followed the second execution marks both.
C2_Witness ==
    /\ currentPanel
    /\ Cardinality(executedCommands) = 2
    /\ Len(ButtonsOf(html)) = 2
    /\ \A i \in 1..2 : ButtonsOf(html)[i].executed

\* C3: a button is marked executed only if an executeCommand message with its
\* id was handled while the preview was showing the document rendered.
C3_NotSharedAcrossDocuments ==
    currentPanel =>
        \A i \in 1..Len(ButtonsOf(html)) :
            ButtonsOf(html)[i].executed =>
                <<document, ButtonsOf(html)[i].id>> \in clickedOn

(***************************************************************************)
(* Properties of the parser and of the button of an inline command.        *)
(***************************************************************************)

\* The fields of a descriptor that a button's command object carries.
CommandFields(d) ==
    [command |-> d.command, action |-> d.action, terminal |-> d.terminal,
     interrupt |-> d.interrupt]

\* C6: the command object on the button of an inline execute tag equals the
\* descriptor parseDocument yields for the same line, field by field.
C6_ButtonEqualsDescriptor ==
    (currentPanel /\ parsed.done /\ text["A"][1].tag.action = "execute") =>
        /\ Len(ButtonsOf(html)) = Len(parsed.cmds)
        /\ \A i \in 1..Len(parsed.cmds) :
              ButtonsOf(html)[i].cmd = CommandFields(parsed.cmds[i])

\* The line is `cmd` {{ action 'name' }}.
IsQuotedForm(l) ==
    /\ l.tag.action \in ActionKeywords
    /\ Len(l.tag.args) = 1
    /\ l.tag.args[1].q = "sq"

\* The same line with the name bare: `cmd` {{ action name }}.
BareForm(l) == CmdLine(l.cmd, Tag(l.tag.action, <<Bare(l.tag.args[1].w)>>))

QuotedParsesAsBare(l) ==
    /\ parsed.done =>
          /\ Len(parsed.cmds) = 1
          /\ parsed.cmds = ParseDocument(<<BareForm(l)>>)
    /\ parsedLine.done =>
          /\ Len(parsedLine.cmds) = 1
          /\ parsedLine.cmds = ParseLine(BareForm(l), 0)

\* C7 as stated: parseDocument and parseLine yield for {{ action 'name' }}
\* the descriptor they yield for {{ action name }}, whatever the name.
C7_QuotedEqualsBare ==
    IsQuotedForm(text["A"][1]) => QuotedParsesAsBare(text["A"][1])

\* C7 as amended: the same, for every name but the word interrupt.
C7_QuotedEqualsBareButInterrupt ==
    (IsQuotedForm(text["A"][1]) /\ text["A"][1].tag.args[1].w # "interrupt") =>
        QuotedParsesAsBare(text["A"][1])

\* Both parser entry points have run on `l` {{ copy 't2' }}.
C7_Witness ==
    /\ parsed.done
    /\ parsedLine.done
    /\ text["A"][1].tag = Tag("copy", <<Sq("t2")>>)
    /\ parsed.cmds[1].terminal = "t2"

\* C8: `cmd` {{ execute interrupt }} parses, in parseDocument and in
\* parseLine, to one descriptor with action execute, no terminal and the
\* interrupt flag set, whatever the command text.
C8_BareInterruptIsNoTerminal ==
    text["A"][1].tag = Tag("execute", <<Bare("interrupt")>>) =>
        LET expected == [line |-> 0, command |-> text["A"][1].cmd, action |-> "execute",
                         terminal |-> Undefined, interrupt |-> TRUE]
        IN  /\ parsed.done => parsed.cmds = <<expected>>
            /\ parsedLine.done => parsedLine.cmds = <<expected>>

\* Both entry points have run on {{ execute interrupt }} after a command
\* text of the greatest length.
C8_Witness ==
    /\ parsed.done
    /\ parsedLine.done
    /\ text["A"][1].tag = Tag("execute", <<Bare("interrupt")>>)
    /\ Len(text["A"][1].cmd) = MaxCmdLen
    /\ parsedLine.cmds[1].interrupt

(***************************************************************************)
(* Properties of validateAnswer.                                           *)
(***************************************************************************)

\* What the comparison is specified to be made on: the trimmed string,
\* lowercased exactly when caseSensitive is false.
Normal(cs, x) == IF cs = "false" THEN ToLowerCase(Trim(x)) ELSE Trim(x)

NormalSet(cs, arr) == {Normal(cs, arr[i]) : i \in 1..Len(arr)}

\* C9: for a key whose correct value is a list, the result is correct iff
\* the normalized user answers and the normalized correct answers are equal
\* as sets.
C9_MultiAnswerSetEquality ==
    (vresult.done /\ vcall.hasKey /\ vcall.answer.correct.list) =>
        /\ ~vresult.threw
        /\ vresult.correct =
              (NormalSet(vcall.answer.caseSensitive, vcall.user.v)
                  = NormalSet(vcall.answer.caseSensitive, vcall.answer.correct.v))

\* C10: for a key whose correct value is a string and a user answer that is
\* a string, the result is correct iff the trimmed user answer equals the
\* trimmed correct answer or a trimmed entry of alternatives, both sides
\* lowercased exactly when caseSensitive is false.
C10_SingleAnswer ==
    (vresult.done /\ vcall.hasKey /\ ~vcall.answer.correct.list /\ ~vcall.user.list) =>
        /\ ~vresult.threw
        /\ vresult.correct =
              (Normal(vcall.answer.caseSensitive, vcall.user.v[1])
                  \in NormalSet(vcall.answer.caseSensitive, vcall.answer.correct.v)
                      \cup (IF vcall.answer.alternatives.present
                            THEN NormalSet(vcall.answer.caseSensitive,
                                           vcall.answer.alternatives.v)
                            ELSE {}))

\* The answer " B" has been validated as correct against the key "bb" with
\* caseSensitive false, by the alternative "B " only.
C10_Witness ==
    /\ vresult.done
    /\ vresult.correct
    /\ vcall.hasKey
    /\ vcall.answer.caseSensitive = "false"
    /\ vcall.answer.correct = AString(<<"b", "b">>)
    /\ vcall.answer.alternatives = [present |-> TRUE, v |-> <<<<"B", " ">>>>]
    /\ vcall.user = AString(<<" ", "B">>)

\* C11: whenever the answer key is absent or has no entry for the question,
\* validateAnswer does not throw and returns correct = false with the "no
\* answer key" explanation and no correctAnswer, whatever value the loader
\* has returned as the key.
C11_NoAnswerKeyResult ==
    (vresult.done /\ (vcall.answerKey # "object" \/ ~vcall.hasKey)) =>
        /\ ~vresult.threw
        /\ ~vresult.correct
        /\ vresult.explanation = NoAnswerKeyFound
        /\ ~vresult.correctAnswer.present

C13_CacheKeyedByPair ==
    lastLoad.done =>
        /\ (lastLoad.looked = 0) = lastLoad.wasLoaded
        /\ lastLoad.looked = 0 =>
               \E i \in 1..3 :
                  lastLoad.key
                     = KeyOf(PossiblePaths(lastLoad.mdclPath, lastLoad.customName)[i])

\* The candidates in the order in which they are to be considered: with a
\* custom name <dir>/<name>.yaml, <dir>/<name>.yml and <dir>/<name>,
\* without one the document path with .mdcl replaced by .mdclanswer.yaml,
\* .mdclanswer.yml and .mdclanswer.
CandidatesInOrder(mdclPath, customName) ==
    [i \in 1..3 |->
        IF customName # <<>>
        THEN <<Head(mdclPath)>> \o customName \o <<<<".yaml">>, <<".yml">>, <<>>>>[i]
        ELSE ReplaceFirst(mdclPath, ".mdcl",
                          <<".mdclanswer.yaml", ".mdclanswer.yml", ".mdclanswer">>[i])]

\* What the file at a path determines as the result: its key, or null when
\* it cannot be read or parsed.
DeterminedBy(f) ==
    IF files[f] = "key" THEN KeyOf(f)
    ELSE IF files[f] = "scalar" THEN ValueOf(f)
    ELSE Null

\* The file f can be read and its text parses to a value that is not empty.
HoldsValue(f) == files[f] \in {"key", "scalar"}

\* C14 as stated: a call that looks at the files resolves to what the first
\* candidate that exists determines, the candidates taken in the order
\* .yaml, .yml, bare name (null when no candidate exists).
C14_FirstExistingDetermines ==
    (lastLoad.done /\ lastLoad.looked > 0) =>
        \/ /\ \A i \in 1..3 :
                  files[CandidatesInOrder(lastLoad.mdclPath, lastLoad.customName)[i]]
                     = Missing
           /\ lastLoad.key = Null
        \/ \E i \in 1..3 :
              /\ files[CandidatesInOrder(lastLoad.mdclPath, lastLoad.customName)[i]]
                    # Missing
              /\ \A j \in 1..(i - 1) :
                    files[CandidatesInOrder(lastLoad.mdclPath, lastLoad.customName)[j]]
                       = Missing
              /\ lastLoad.key
                    = DeterminedBy(CandidatesInOrder(lastLoad.mdclPath,
                                                     lastLoad.customName)[i])

\* C14, amended: a call that looks at the files resolves to the
\* value of the first candidate, in the order .yaml, .yml, bare name, that
\* exists, can be read and parses to a value that is not empty; candidates
\* that are missing, unreadable, unparsable or empty are passed over, and
\* the call resolves to null when no candidate is left.
C14_FirstParsableDetermines ==
    (lastLoad.done /\ lastLoad.looked > 0) =>
        \/ /\ \A i \in 1..3 :
                  ~HoldsValue(CandidatesInOrder(lastLoad.mdclPath, lastLoad.customName)[i])
           /\ lastLoad.key = Null
           /\ lastLoad.looked = 3
        \/ \E i \in 1..3 :
              /\ HoldsValue(CandidatesInOrder(lastLoad.mdclPath, lastLoad.customName)[i])
              /\ \A j \in 1..(i - 1) :
                    ~HoldsValue(CandidatesInOrder(lastLoad.mdclPath,
                                                  lastLoad.customName)[j])
              /\ lastLoad.key
                    = DeterminedBy(CandidatesInOrder(lastLoad.mdclPath,
                                                     lastLoad.customName)[i])
              /\ lastLoad.looked = i

\* A call with a custom name has resolved to the key of <dir>/<name>.yml
\* while <dir>/<name>.yaml exists and does not parse.
C14_Witness ==
    /\ lastLoad.done
    /\ lastLoad.customName # <<>>
    /\ lastLoad.looked = 2
    /\ files[<<Head(lastLoad.mdclPath)>> \o lastLoad.customName \o <<".yaml">>] = "invalid"
    /\ lastLoad.key = KeyOf(<<Head(lastLoad.mdclPath)>> \o lastLoad.customName \o <<".yml">>)

\* C15: a call for a pair none of whose candidates exists, can be read and
\* parses looks at all of them and resolves to null, also when it is a
\* later call for that pair.
C15_FailedLoadResolvesNull ==
    (/\ lastLoad.done
     /\ \A i \in 1..3 :
           files[CandidatesInOrder(lastLoad.mdclPath, lastLoad.customName)[i]] # "key") =>
        /\ lastLoad.key = Null
        /\ lastLoad.looked = 3

(***************************************************************************)
(* Properties of the quizzes of a render.                                  *)
(***************************************************************************)

\* The ids of the quiz widgets of a piece of markup, in its order.
RECURSIVE QuizIds(_)
QuizIds(h) ==
    IF h = <<>> THEN <<>>
    ELSE (IF Head(h).e = "quiz" THEN <<Head(h).widget.id>>
          ELSE IF Head(h).e = "p" /\ Head(h).inl[1].i = "quiz" THEN <<Head(h).inl[1].id>>
          ELSE <<>>)
         \o QuizIds(Tail(h))

\* Lines i to j of t are a quiz block with fewer than two option lines.
IsShortQuizBlock(t, i, j) ==
    /\ i < j
    /\ t[i].k = "fence" /\ t[i].lang = "quiz"
    /\ t[j].k = "fence"
    /\ \A x \in (i + 1)..(j - 1) : t[x].k \in {"text", "blank"}
    /\ Cardinality({x \in (i + 1)..(j - 1) : "option" \in DOMAIN t[x]}) < 2

\* The markup shows a placeholder token.
ShowsPlaceholder(h) ==
    \E x \in 1..Len(h) :
       h[x].e = "pre" /\ \E y \in 1..Len(h[x].body) : h[x].body[y].k = "ph"

\* The render of the text without its lines i to j.
RenderWithout(t, i, j) ==
    GetHtmlContent(SubSeq(t, 1, i - 1) \o SubSeq(t, j + 1, Len(t)), {}, 0,
                   NoBlockCommands, 1, 0)

\* C16: a quiz block with fewer than two option lines yields no question:
\* the markup holds the block as the code block that its source is, no
\* placeholder is shown, and the quiz widgets, their ids and the quiz
\* counter are those of the render of the document without the block.
C16_ShortQuizBlockLeftInPlace ==
    document # Undefined =>
        \A i, j \in 1..Len(text[document]) :
           IsShortQuizBlock(text[document], i, j) =>
              /\ \E x \in 1..Len(html) :
                    html[x] = [e |-> "pre", lang |-> "quiz",
                               body |-> SubSeq(text[document], i + 1, j - 1)]
              /\ ~ShowsPlaceholder(html)
              /\ QuizIds(html) = QuizIds(RenderWithout(text[document], i, j).html)
              /\ quizCounter = RenderWithout(text[document], i, j).quizCounter

\* A block with one option has been rendered above a block with two, which
\* has got the id quiz_0.
C16_Witness ==
    /\ document # Undefined
    /\ Len(text[document]) = 9
    /\ IsShortQuizBlock(text[document], 1, 4)
    /\ "option" \in DOMAIN text[document][3]
    /\ QuizIds(html) = <<"quiz_0">>
    /\ quizCounter = 1

\* C17: within one render the quiz widgets, block or inline, have pairwise
\* distinct ids.
C17_QuizIdsDistinct ==
    \A x, y \in 1..Len(QuizIds(html)) :
       x # y => QuizIds(html)[x] # QuizIds(html)[y]

(***************************************************************************)
(* Properties of the executor and of the executeCommand handler.           *)
(***************************************************************************)

\* The events of a step.
NewEvents == (Len(events) + 1)..Len(events')

\* C18: in every step, a terminal is created for a channel name only when
\* the map holds no terminal under that name or the one it holds has exited;
\* a dispatch to a name whose terminal runs uses that terminal; the entries
\* of the other names stay as they are; and of the terminals created for
\* one name at most one has not exited.
C18_Step ==
    /\ \A x \in NewEvents :
          events'[x].ev = "create" =>
             /\ NeedsTerminal(events'[x].data[1])
             /\ terminals'[events'[x].data[1]] = events'[x].t
             /\ events'[x].t \notin {terminals[name] : name \in DOMAIN terminals}
    /\ \A name \in DOMAIN terminals :
          /\ name \in DOMAIN terminals'
          /\ terminals'[name] # terminals[name] =>
                /\ terminals[name] \in exited
                /\ \E x \in NewEvents :
                      events'[x].ev = "create" /\ events'[x].data = <<name>>
    /\ \A name \in DOMAIN terminals' \ DOMAIN terminals :
          \E x \in NewEvents : events'[x].ev = "create" /\ events'[x].data = <<name>>
    /\ Cardinality({x \in NewEvents : events'[x].ev = "create"}) <= 1
    /\ \A d \in dispatches' \ dispatches :
          (d.command.action = "execute" /\ ~NeedsTerminal(TerminalName(d.command))) =>
             /\ terminals' = terminals
             /\ \A x \in NewEvents : events'[x].t = terminals[TerminalName(d.command)]
    /\ \A x, y \in 1..Len(events') :
          (x < y /\ events'[x].ev = "create" /\ events'[y].ev = "create"
             /\ events'[x].data = events'[y].data) => events'[x].t \in exited'

C18_TerminalPerName == [][C18_Step]_vars

\* The channel main has got a second terminal after its first one exited.
C18_Witness ==
    \E x, y \in 1..Len(events) :
       /\ x < y
       /\ events[x].ev = "create" /\ events[x].data = <<"main">>
       /\ events[y].ev = "create" /\ events[y].data = <<"main">>
       /\ "main" \in DOMAIN terminals /\ terminals["main"] = events[y].t

\* C19: the command text of a dispatch with interrupt set is sent after the
\* cancel signal of that dispatch has been sent to the same terminal and its
\* delay has elapsed, in this order; for a dispatch without interrupt no
\* cancel signal is sent.
C19_InterruptOrder ==
    /\ \A y \in 1..Len(events) :
          (events[y].ev = "text" /\ events[y].interrupt) =>
             \E x, z \in 1..Len(events) :
                /\ x < z /\ z < y
                /\ events[x].ev = "cancel" /\ events[x].n = events[y].n
                /\ events[x].t = events[y].t /\ events[x].data = <<"^C">>
                /\ events[z].ev = "delay" /\ events[z].n = events[y].n
    /\ \A x \in 1..Len(events) : events[x].ev = "cancel" => events[x].interrupt

\* A dispatch has interrupted and sent its text while another dispatch sent
\* its text between the cancel signal and the end of the delay.
C19_Witness ==
    \E x, m, y \in 1..Len(events) :
       /\ x < m /\ m < y
       /\ events[x].ev = "cancel"
       /\ events[m].ev = "text" /\ events[m].n # events[x].n
       /\ events[y].ev = "text" /\ events[y].n = events[x].n
       /\ events[y].data = <<"l", "\\", "!">>

\* C20: a step in which a dispatch fails reports the failure, lets no
\* exception escape the handler, and leaves the execution state and the
\* markup as they were.
C20_Step ==
    \A x \in NewEvents :
       events'[x].ev = "failed" =>
          /\ \E y \in NewEvents : events'[y].ev = "error" /\ events'[y].n = events'[x].n
          /\ \A y \in NewEvents : events'[y].ev # "throw"
          /\ executedCommands' = executedCommands
          /\ html' = html

C20_FailedDispatchAbsorbed == [][C20_Step]_vars

(***************************************************************************)
(* Properties of the checkQuizAnswer handler.                              *)
(***************************************************************************)

\* How many of the messages of a log carry the quiz id.
CountOf(log, quizId) == Cardinality({i \in 1..Len(log) : log[i].quizId = quizId})

\* C21: every checkQuizAnswer message that has been handled has been
\* answered by one quizResult message with its quizId: for each quiz id there
\* are as many replies as messages.
C21_EveryCheckAnswered ==
    \A i \in 1..Len(checked) :
        CountOf(quizResults, checked[i].quizId) = CountOf(checked, checked[i].quizId)

\* The key that the answer files next to a document determine: the value of
\* the first default candidate that holds one, or null.
IsKeyOnDisk(key, mdclPath) ==
    \/ /\ \A i \in 1..3 : ~HoldsValue(CandidatesInOrder(mdclPath, <<>>)[i])
       /\ key = Null
    \/ \E i \in 1..3 :
          /\ HoldsValue(CandidatesInOrder(mdclPath, <<>>)[i])
          /\ \A j \in 1..(i - 1) : ~HoldsValue(CandidatesInOrder(mdclPath, <<>>)[j])
          /\ key = DeterminedBy(CandidatesInOrder(mdclPath, <<>>)[i])

\* C22: a checkQuizAnswer without a custom answer key is validated against
\* the key of the document that the panel shows when the message is handled.
C22_KeyOfDocumentShown ==
    \A i \in 1..Len(checked) :
        checked[i].customName = <<>> =>
            IsKeyOnDisk(checked[i].key, FsPath(checked[i].document))

(***************************************************************************)
(* Properties of the buttons of a render.                                  *)
(***************************************************************************)

\* The buttons of a piece of markup have ids that differ from each other.
DistinctIds(h) ==
    \A i, j \in 1..Len(ButtonsOf(h)) :
        i # j => ButtonsOf(h)[i].id # ButtonsOf(h)[j].id

\* The handler of p resumes: the render after it has the buttons of the
\* render before it, with the same ids, and the only button whose mark
\* differs is the one with the id of p.
MarksOnly(p, before, after) ==
    /\ Len(after) = Len(before)
    /\ \A i \in 1..Len(after) :
          /\ after[i].id = before[i].id
          /\ after[i].cmd = before[i].cmd
          /\ after[i].executed # before[i].executed =>
                /\ after[i].id = p.commandId
                /\ after[i].executed

C23_Step ==
    /\ DistinctIds(html')
    /\ \A p \in pending :
          pending' = pending \ {p} => MarksOnly(p, ButtonsOf(html), ButtonsOf(html'))

\* C23: in every render the command buttons (inline, per-line and Run All)
\* have pairwise distinct ids, and when a button has been executed the next
\* render of the unchanged document shows the same buttons and newly marks
\* no button but that one.
C23_EachButtonTracked == [][C23_Step]_vars

\* Two buttons with the same command, one marked executed and one not.
C23_Witness ==
    \E i, j \in 1..Len(ButtonsOf(html)) :
        /\ ButtonsOf(html)[i].cmd = ButtonsOf(html)[j].cmd
        /\ ButtonsOf(html)[i].executed
        /\ ~ButtonsOf(html)[j].executed
(***************************************************************************)
(* Properties of directives that no pass knows.                            *)
(***************************************************************************)

\* A backticked span followed by a directive whose keyword is none of the
\* actions, kinds of message or quiz.
IsMalformed(l) ==
    /\ l.k = "cmd"
    /\ l.tag.action \notin ActionKeywords \cup MessageKinds \cup {"quiz"}

\* The text with the directive of line i as plain words: the span stays,
\* and what follows it holds no braces.
WithPlainText(t, i) == [t EXCEPT ![i] = CmdLine(t[i].cmd, Tag("", <<>>))]

RenderOf(t, executed) == GetHtmlContent(t, executed, 0, NoBlockCommands, 1, 0)

\* The message boxes of a piece of markup.
MessageBoxes(h) ==
    SelectSeq(h, LAMBDA el : el.e = "p" /\ el.inl # <<>> /\ el.inl[1].i = "message")

\* C24: a span followed by a directive with an unknown keyword is inert: the
\* buttons with their ids, the message boxes, the quiz widgets and the
\* command counter of the render are those of the same text with the
\* directive as plain words, and parseDocument has no descriptor for the
\* line.
C24_UnknownDirectiveInert ==
    \A i \in 1..Len(text["A"]) :
       IsMalformed(text["A"][i]) =>
          /\ currentPanel =>
                LET r == RenderOf(WithPlainText(text["A"], i), executedCommands)
                IN  /\ ButtonsOf(html) = ButtonsOf(r.html)
                    /\ MessageBoxes(html) = MessageBoxes(r.html)
                    /\ QuizWidgets(html) = QuizWidgets(r.html)
                    /\ commandCounter = r.commandCounter
          /\ parsed.done => \A x \in 1..Len(parsed.cmds) : parsed.cmds[x].line # i - 1
(***************************************************************************)
(* Properties of run-all blocks.                                           *)
(***************************************************************************)

\* The run-all blocks of a text, from line i on: a fence that carries an
\* action directive, the lines below it, and the next line that holds
\* nothing but a fence.
RECURSIVE RunAllBlocksOf(_, _)
RunAllBlocksOf(t, i) ==
    IF i > Len(t) THEN <<>>
    ELSE IF ~StartsWithFence(t[i]) THEN RunAllBlocksOf(t, i + 1)
    ELSE LET c == ClosingFence(t, i + 1)
         IN  (IF RunAllRegex(t[i]).ok /\ c <= Len(t)
              THEN <<SubSeq(t, i + 1, c - 1)>> ELSE <<>>)
             \o RunAllBlocksOf(t, c + 1)

RunAllElements(h) == SelectSeq(h, LAMBDA el : el.e = "runall")

\* C25: every run-all block of the document shown is one Run All element of
\* the markup, in order, and the command list of the element is the spans
\* of the body when it has spans, else its non-blank lines.
C25_RunAllBlocksRecognised ==
    currentPanel =>
        LET bodies == RunAllBlocksOf(text["A"], 1)
            els == RunAllElements(html)
        IN  /\ Len(els) = Len(bodies)
            /\ \A n \in 1..Len(bodies) :
                  /\ els[n].commands = BlockCommandList(bodies[n])
                  /\ els[n].button.cmd.command
                        = <<"eval">> \o JoinCommands(BlockCommandList(bodies[n]))
(***************************************************************************)
(* Properties of clearCache.                                               *)
(***************************************************************************)

\* The cache holds nothing that was loaded for the document: neither its
\* default key nor a key under a custom name.
NothingCachedFor(cache, mdclPath) ==
    \A c \in CustomNames : CacheKey(mdclPath, c) \notin DOMAIN cache

C26_Step ==
    \A d \in DocPaths \cup {<<>>} :
       ClearCache(d) =>
          IF d = <<>> THEN answerKeys' = <<>>
          ELSE NothingCachedFor(answerKeys', d)

\* C26: clearCache(documentPath) leaves no cached key of that document, under
\* a custom name or not, and clearCache() leaves the cache empty.
C26_ClearCacheCoversDocument == [][C26_Step]_vars
(***************************************************************************)
(* The order of the commands on one channel.                               *)
(***************************************************************************)

\* C28: the command texts that a terminal has received are in the order in
\* which their dispatches were started.
C28_ChannelOrder ==
    \A x, y \in 1..Len(events) :
       (/\ x < y
        /\ events[x].ev = "text"
        /\ events[y].ev = "text"
        /\ events[x].t = events[y].t) => events[x].n < events[y].n
(***************************************************************************)
(* The one preview panel.                                                  *)
(***************************************************************************)

\* C27: in every step, whatever opens or closes the preview: at most one
\* webview panel exists, and it is the one of currentPanel; a panel is
\* created only when currentPanel is undefined; while currentPanel is
\* defined it stays the same panel, shown for the document it was last
\* asked for; and when a panel is disposed currentPanel is undefined.
C27_Step ==
    /\ Cardinality(webviewPanels') <= 1
    /\ currentPanel' <=> webviewPanels' = {epoch'}
    /\ webviewPanels' \ webviewPanels # {} => ~currentPanel /\ webviewPanels = {}
    /\ webviewPanels \ webviewPanels' # {} => ~currentPanel' /\ webviewPanels' = {}
    /\ (currentPanel /\ currentPanel') =>
          /\ epoch' = epoch
          /\ html' = RenderOf(text[document'], executedCommands).html

C27_OnePanel == [][C27_Step]_vars

\* The second panel is shown, re-pointed to document B, while a timer of the
\* auto-open is pending.
C27_Witness ==
    /\ currentPanel
    /\ epoch = 2
    /\ webviewPanels = {2}
    /\ document = "B"
    /\ html = RenderOf(text["B"], {}).html
    /\ autoOpenTimers = <<"A", "A">>
(***************************************************************************)
(* What changes the execution state.                                       *)
(***************************************************************************)

\* The handlers whose dispatch has ended in this step.
Completed == dispatches \ dispatches'

\* C29: in every step, the execution state of a panel loses no id, a new
\* panel starts with none, and an id that the state gains is the commandId
\* of an executeCommand message whose dispatch has ended in this step without
\* a failure; a step in which no such dispatch ends, and the end of a
\* dispatch without a commandId, leave the state as it is.
C29_Step ==
    /\ IF epoch' = epoch THEN executedCommands \subseteq executedCommands'
       ELSE executedCommands' = {}
    /\ \A id \in executedCommands' \ executedCommands :
          /\ id # NoCommandId
          /\ \E d \in Completed :
                /\ d.commandId = id
                /\ d.epoch = epoch
                /\ \A x \in NewEvents : events'[x].ev # "throw"
    /\ (\A d \in Completed : d.commandId = NoCommandId) =>
          (epoch' = epoch => executedCommands' = executedCommands)

C29_OnlyExecuteCommandMarks == [][C29_Step]_vars

\* The execution state holds an id, while a quiz answer has been
\* checked, a scroll event passed on, the scroll position saved, the
\* document changed and a dispatch without a commandId completed.
C29_Witness ==
    /\ Cardinality(executedCommands) = 1
    /\ checked # <<>>
    /\ forwarded # <<>>
    /\ scrollPosition = 1
    /\ text["A"] = <<PlainCommand>>
    /\ started = 2
    /\ dispatches = {}
(***************************************************************************)
(* The guard of the scroll synchronisation.                                *)
(***************************************************************************)

\* The pending reset timers of the panel object e.
TimersOf(e) == {x \in 1..Len(resetTimers) : resetTimers[x] = e}

C30_Guarded ==
    /\ \A e \in 1..epoch : Cardinality(TimersOf(e)) <= 1
    /\ isScrolling <=> TimersOf(epoch) # {}
    /\ \A x \in 1..Len(forwarded) : ~forwarded[x].scrolling

C30_Step ==
    /\ (~isScrolling /\ isScrolling') =>
          /\ Len(forwarded') = Len(forwarded) + 1
          /\ resetTimers' = Append(resetTimers, epoch)
    /\ (isScrolling /\ epoch' = epoch) =>
          /\ forwarded' = forwarded
          /\ ~isScrolling' => (Head(resetTimers) = epoch /\ resetTimers' = Tail(resetTimers))

\* C30: the flag isScrolling of a panel is set only when it is not set, in
\* the step that passes a scroll event on and starts the reset timer; while
\* it is set no scroll event is passed on and exactly one reset timer of the
\* panel is pending, whose firing is what clears the flag; and whenever the
\* flag is set it is cleared later.
C30_GuardSetAndCleared ==
    /\ []C30_Guarded
    /\ [][C30_Step]_vars
    /\ (isScrolling ~> ~isScrolling)

\* A scroll of the preview and then a scroll of the editor have been passed
\* on by the same panel, and the flag is clear again with no timer pending.
C30_Witness ==
    /\ Len(forwarded) = 2
    /\ forwarded[1].to = "editor"
    /\ forwarded[2].to = "preview"
    /\ forwarded[1].epoch = forwarded[2].epoch
    /\ ~isScrolling
    /\ resetTimers = <<>>
====
